---- MODULE Spec2Model ----
(***************************************************************************)
(* Model of the core of grok-cli, in seven parts:                          *)
(*                                                                         *)
(*  - the tool-call scheduler, class CoreToolScheduler of                  *)
(*    packages/core/src/core/coreToolScheduler.ts (Spec, FairSpec; with an *)
(*    onToolCallsUpdate observer, ObservedSpec);                           *)
(*  - one model round-trip, Turn.run of packages/core/src/core/logger.ts   *)
(*    (TurnSpec);                                                          *)
(*  - the conversation driver, sendMessageStream and tryCompressChat of    *)
(*    xaiclient.ts, grokclient.ts and client.ts (ClientSpec);              *)
(*  - the non-interactive main of packages/cli/src/xai.tsx (MainSpec);     *)
(*  - executeSingleToolCall of grokclient.ts (ExecSpec);                   *)
(*  - GrokApiClient of grokClient.ts with the message mapper               *)
(*    mapPartsToOpenAIChatMessages (ApiSpec);                              *)
(*  - the Logger of packages/core/src/core/logger.ts (LoggerSpec).         *)
(*                                                                         *)
(* Each part has its own variables and actions; an action of one part      *)
(* leaves the variables of the others unchanged, and every specification   *)
(* starts from the state in which all parts are constructed.               *)
(*                                                                         *)
(* JavaScript runs the scheduler on one thread.  schedule() is an async    *)
(* function with a single suspension point, `await this.toolRegistry`      *)
(* (line 205): the code before it runs inside the caller's step, the code  *)
(* after it runs as one uninterrupted continuation.  Continuations of the  *)
(* same promise run in the order in which they were registered, so the     *)
(* suspended invocations form a FIFO queue.                                *)
(*                                                                         *)
(* setStatusInternal (lines 178-185) has an empty body and the loop of     *)
(* lines 241-244 has no statement after its `continue`, so the model has   *)
(* neither: a call keeps the status it was admitted with.  The callbacks   *)
(* of lines 267-279 are attached only to dispatched calls; they read       *)
(* signal.aborted, which nothing else in the class reads.                  *)
(***************************************************************************)
EXTENDS Naturals, Sequences, FiniteSets, TLC

\* ------------------------------------------------------------------ bounds
\* Longest batch a schedule() call is given.
MaxBatch == 2
\* Number of schedule() calls issued during one run.
MaxInvocations == 2
\* Number of requests handed to schedule() during one run, all calls together.
MaxRequests == 4

\* ------------------------------------------------------------------ inputs
\* Tool-call ids are opaque tokens chosen by the remote model.
Ids == 1..MaxBatch

\* Tool names a request may carry; "nope" is registered nowhere.
ToolNames == {"write", "nope"}

\* The registry's content.
RegisteredTools == {"write"}

\* The raw `function.arguments` texts a request may carry.
BadJson == "{bad json"
HiJson == "{\"text\":\"hi\"}"
ArgTexts == {BadJson, HiJson}

\* JSON.parse: the texts that parse, and the object each yields (an object
\* is modelled as its set of <<key, value>> pairs).  Any other text throws.
ParsableTexts == {HiJson}
JsonParse(text) ==
  IF text \in ParsableTexts
    THEN [ok |-> TRUE, value |-> {<<"text", "hi">>}]
    ELSE [ok |-> FALSE, value |-> {}]

\* ChatCompletionMessageToolCall, as far as schedule() reads it.
ApiToolCalls == [id : Ids, name : ToolNames, arguments : ArgTexts]

RECURSIVE SeqsUpTo(_, _)
SeqsUpTo(S, n) ==
  IF n = 0 THEN {<< >>}
  ELSE LET shorter == SeqsUpTo(S, n - 1)
       IN shorter \cup {Append(s, x) : s \in {t \in shorter : Len(t) = n - 1}, x \in S}

\* The ids of a batch are distinct.  They are numbered against the request
\* order, so that an id is not the position of its request.
DistinctIds(reqs) ==
  \A i \in 1..Len(reqs) : reqs[i].id = Len(reqs) + 1 - i

\* The batches a caller may hand to schedule().
Batches == {reqs \in SeqsUpTo(ApiToolCalls, MaxBatch) : DistinctIds(reqs)}

\* ------------------------------------------------------------------ state
VARIABLES
  toolCalls,     \* this.toolCalls
  issued,        \* the `requests` argument of every schedule() call so far, in call order
  pending,       \* the calls (their numbers) suspended at `await this.toolRegistry`
  busyThrown,    \* ghost: numbers of the schedule() calls that threw the busy error
  lookedUp,      \* ghost: <<inv, idx>> of the requests getTool() was called for
  confirmPhase,  \* ghost: <<inv, idx>> of the calls that passed line 242
  executed,      \* ghost: <<inv, idx>> of the calls whose tool.execute() was invoked
  completions,   \* ghost: the invocations of onAllToolCallsComplete, in order
  observed       \* ghost: the invocations of onToolCallsUpdate, in order

\* The state of one Turn and of its run(), logger.ts lines 379-515.
VARIABLES
  turnPc,                 \* where run() is: "new" (not called), "opening", "reading",
                          \* "suspended" (at a yield), "reporting", "done"
  turnAfter,              \* what run() does once the events of `outbox` are taken
  aborted,                \* signal.aborted
  fullResponseText,       \* the local of line 414, as the sequence of its fragments
  toolCallBuffers,        \* the local of line 416
  outbox,                 \* the events run() yields before its next await
  pendingToolCalls,       \* this.pendingToolCalls
  finalAssistantMessage,  \* this.finalAssistantMessage
  received,               \* ghost: the chunks read, each with the token's state on arrival
  emitted,                \* ghost: the events yielded, in order
  reported,               \* ghost: the number of reportError() calls
  failures                \* ghost: the entries into the catch clause

schedVars == <<toolCalls, issued, pending, busyThrown, lookedUp, confirmPhase,
               executed, completions, observed>>

turnVars == <<turnPc, turnAfter, aborted, fullResponseText, toolCallBuffers,
              outbox, pendingToolCalls, finalAssistantMessage, received,
              emitted, reported, failures>>

\* The state of a client, of its sendMessageStream, and of main.
VARIABLES
  clientFile,     \* the file of the client's class; "none" before construction
  history,        \* this.history
  callPc,         \* where sendMessageStream is: "none" (not called), "compressing",
                  \* "yieldCompressed", "turn", "yieldTurn", "speaker", "reporting",
                  \* "yieldError", "returned", "raised"
  turns,          \* the `turns` parameter of the innermost frame
  signalAborted,  \* signal.aborted of the token passed to sendMessageStream
  turnNo,         \* the number of Turns started
  turnErrored,    \* the running Turn has yielded its Error event
  turnEvents,     \* the number of events the running Turn has yielded
  budget,         \* ghost: the `turns` argument of the caller
  historyAtCall,  \* ghost: the history when the caller called
  streamEvents,   \* ghost: the types of the events sendMessageStream yielded
  finalAppends,   \* ghost: the round-trip of every final message pushed
  clientReports,  \* ghost: the number of reportError() calls
  compressLog,    \* ghost: the summarization requests and what became of them
  speakerLog,     \* ghost: the answers of checkNextSpeaker
  turnLog,        \* ghost: how every Turn ended
  mainPc,         \* where main is: "start", "ready", "streaming", "scheduling", "exited"
  exitCode,       \* the argument of process.exit()
  scheduled       \* ghost: the number of tool calls of every scheduler.schedule() call

\* The state of executeSingleToolCall and of its caller's loop.
VARIABLES
  execPc,         \* "idle", or "awaiting" tool.execute()
  execCall,       \* the toolCall of the call in progress
  execInvoked,    \* the number of execute() invocations of the call in progress
  execDone        \* ghost: the calls that ended, with their message and log events

clientVars == <<clientFile, history, callPc, turns, signalAborted, turnNo, turnErrored,
                turnEvents, budget, historyAtCall, streamEvents, finalAppends,
                clientReports, compressLog, speakerLog, turnLog, mainPc, exitCode,
                scheduled>>

execVars == <<execPc, execCall, execInvoked, execDone>>

\* The state of a GrokApiClient (grokClient.ts lines 24-35) and of its
\* generateContent and generateContentStream.
VARIABLES
  lastToolCallIds,  \* this.lastToolCallIds
  apiPc,            \* "idle", "generating" (generateContent awaits create()),
                    \* "opening" (generateContentStream awaits create()),
                    \* "streaming" (the generator of lines 150-192 is being read)
  apiRequests,      \* the number of create() calls made
  apiCalls,         \* ghost: every tool call the model has assigned an id to
  apiResponseNo,    \* ghost: the create() call that the latest response answers
  apiSent           \* ghost: the `messages` of the latest create() call

apiVars == <<lastToolCallIds, apiPc, apiRequests, apiCalls, apiResponseNo, apiSent>>

\* The state of one Logger and of the log file, logger.ts lines 27-223.
VARIABLES
  initialized,  \* this.initialized
  messageId,    \* this.messageId
  logs,         \* this.logs
  logFile,      \* the entries of logs.json
  logCalls,     \* the logMessage() calls made, each with where it is, its
                \* entry and its currentLogsOnDisk
  logReturned   \* ghost: the entries _updateLogFile has returned, in order

loggerVars == <<initialized, messageId, logs, logFile, logCalls, logReturned>>

vars == <<schedVars, turnVars, clientVars, execVars, apiVars, loggerVars>>

\* ------------------------------------------------------------------ messages
NoMessage == [role |-> "none", tool_call_id |-> 0, content |-> << >>]

\* A message's content is the sequence of the fragments the template
\* literal joins.
ConvertToToolMessage(toolCallId, result) ==
  [role |-> "tool", tool_call_id |-> toolCallId, content |-> result]

CreateErrorToolMessage(request, errorMessage) ==
  ConvertToToolMessage(request.id,
                       <<"Tool execution failed with error: ">> \o errorMessage)

ParseErrorText(req) == <<"Failed to parse tool arguments as JSON: ", req.arguments>>

NotFoundText(requestInfo) == <<"Tool \"", requestInfo.name, "\" not found in registry.">>

\* toolRegistry.getTool(name): the tool's handle, or "none".
GetTool(name) == IF name \in RegisteredTools THEN name ELSE "none"


\* ------------------------------------------------------------------ schedule
\* The registry is asked before the arguments are parsed.
Admit_LooksUpFirst(req, inv, idx) ==
  LET parsed == JsonParse(req.arguments)
      requestInfoOnError == [id |-> req.id, name |-> req.name, args |-> {}]
      requestInfo == [id |-> req.id, name |-> req.name, args |-> parsed.value]
      toolInstance == GetTool(req.name)
  IN IF toolInstance = "none"
       THEN [call |-> [status |-> "error", request |-> requestInfo,
                       tool |-> "none",
                       response |-> CreateErrorToolMessage(requestInfo,
                                                           NotFoundText(requestInfo)),
                       inv |-> inv, idx |-> idx],
             consulted |-> TRUE]
     ELSE IF ~parsed.ok
       THEN [call |-> [status |-> "error", request |-> requestInfoOnError,
                       tool |-> "none",
                       response |-> CreateErrorToolMessage(requestInfoOnError,
                                                           ParseErrorText(req)),
                       inv |-> inv, idx |-> idx],
             consulted |-> TRUE]
     ELSE [call |-> [status |-> "validating", request |-> requestInfo,
                     tool |-> toolInstance, response |-> NoMessage,
                     inv |-> inv, idx |-> idx],
           consulted |-> TRUE]

\* The result of getTool() is not tested.
Admit_NoMissingToolCheck(req, inv, idx) ==
  LET parsed == JsonParse(req.arguments)
      requestInfoOnError == [id |-> req.id, name |-> req.name, args |-> {}]
      requestInfo == [id |-> req.id, name |-> req.name, args |-> parsed.value]
      toolInstance == GetTool(requestInfo.name)
  IN IF ~parsed.ok
       THEN [call |-> [status |-> "error", request |-> requestInfoOnError,
                       tool |-> "none",
                       response |-> CreateErrorToolMessage(requestInfoOnError,
                                                           ParseErrorText(req)),
                       inv |-> inv, idx |-> idx],
             consulted |-> FALSE]
     ELSE [call |-> [status |-> "validating", request |-> requestInfo,
                     tool |-> toolInstance, response |-> NoMessage,
                     inv |-> inv, idx |-> idx],
           consulted |-> TRUE]

\* The callback of requests.map (lines 207-235) for the idx-th request of
\* invocation inv: the new call, and whether getTool() was called for it.
\* inv and idx are ghost fields: they name the request a call was made from.
Admit(req, inv, idx) ==
  LET parsed == JsonParse(req.arguments)
      requestInfoOnError == [id |-> req.id, name |-> req.name, args |-> {}]
      requestInfo == [id |-> req.id, name |-> req.name, args |-> parsed.value]
      toolInstance == GetTool(requestInfo.name)
  IN IF ~parsed.ok
       THEN [call |-> [status |-> "error", request |-> requestInfoOnError,
                       tool |-> "none",
                       response |-> CreateErrorToolMessage(requestInfoOnError,
                                                           ParseErrorText(req)),
                       inv |-> inv, idx |-> idx],
             consulted |-> FALSE]
     ELSE IF toolInstance = "none"
       THEN [call |-> [status |-> "error", request |-> requestInfo,
                       tool |-> "none",
                       response |-> CreateErrorToolMessage(requestInfo,
                                                           NotFoundText(requestInfo)),
                       inv |-> inv, idx |-> idx],
             consulted |-> TRUE]
     ELSE [call |-> [status |-> "validating", request |-> requestInfo,
                     tool |-> toolInstance, response |-> NoMessage,
                     inv |-> inv, idx |-> idx],
           consulted |-> TRUE]

NewToolCalls(requests, inv) ==
  [i \in 1..Len(requests) |-> Admit(requests[i], inv, i).call]

Consulted(requests, inv) ==
  {<<inv, i>> : i \in {j \in 1..Len(requests) : Admit(requests[j], inv, j).consulted}}

\* Line 237.
Concat(calls, newToolCalls) == calls \o newToolCalls

\* Lines 241-244: the calls for which the loop goes past its `continue`.
ConfirmLoop(newToolCalls) ==
  {<<newToolCalls[i].inv, newToolCalls[i].idx>> :
     i \in {j \in 1..Len(newToolCalls) : newToolCalls[j].status = "validating"}}

\* Lines 180-185: the body is empty, the batch is left as it is.
SetStatusInternal(calls, targetCallId, newStatus, auxiliaryData) == calls

IsRunning(calls) ==
  \E i \in 1..Len(calls) : calls[i].status \in {"executing", "awaiting_approval"}

\* ------------------------------------------------------------------ execution
AllCallsReady(calls) ==
  \A i \in 1..Len(calls) :
     calls[i].status \in {"scheduled", "cancelled", "success", "error"}

\* Lines 253-258: the positions of the calls handed to forEach.
CallsToExecute(calls) ==
  IF AllCallsReady(calls)
    THEN {i \in 1..Len(calls) : calls[i].status = "scheduled"}
    ELSE {}

\* Lines 259-266, for the positions at and after `from`: each call is set to
\* 'executing' and its tool's execute() is invoked.
RECURSIVE DispatchFrom(_, _, _)
DispatchFrom(calls, todo, from) ==
  IF from > Len(calls) THEN [calls |-> calls, invoked |-> {}]
  ELSE IF from \notin todo THEN DispatchFrom(calls, todo, from + 1)
  ELSE LET after == SetStatusInternal(calls, calls[from].request.id, "executing", NoMessage)
           rest == DispatchFrom(after, todo, from + 1)
       IN [calls |-> rest.calls,
           invoked |-> rest.invoked \cup {<<calls[from].inv, calls[from].idx>>}]

AttemptExecutionOfScheduledCalls(calls) ==
  DispatchFrom(calls, CallsToExecute(calls), 1)

\* ------------------------------------------------------------------ completion
Terminal == {"success", "error", "cancelled"}

\* `some` in place of `every`.
AllCallsAreTerminal_Some(calls) ==
  \E i \in 1..Len(calls) : calls[i].status \in Terminal

AllCallsAreTerminal(calls) ==
  \A i \in 1..Len(calls) : calls[i].status \in Terminal

\* The batch is not emptied before the callback runs.
CheckAndNotifyCompletion_KeepsBatch(calls) ==
  IF Len(calls) > 0 /\ AllCallsAreTerminal(calls)
    THEN [toolCalls |-> calls, notified |-> TRUE, atCallback |-> calls,
          completedCalls |-> calls,
          toolMessages |-> [i \in 1..Len(calls) |-> calls[i].response]]
    ELSE [toolCalls |-> calls, notified |-> FALSE, atCallback |-> calls,
          completedCalls |-> << >>, toolMessages |-> << >>]

\* The batch is emptied after the callback has run, not before.
CheckAndNotifyCompletion_ClearsLate(calls) ==
  IF Len(calls) > 0 /\ AllCallsAreTerminal(calls)
    THEN [toolCalls |-> << >>, notified |-> TRUE, atCallback |-> calls,
          completedCalls |-> calls,
          toolMessages |-> [i \in 1..Len(calls) |-> calls[i].response]]
    ELSE [toolCalls |-> calls, notified |-> FALSE, atCallback |-> calls,
          completedCalls |-> << >>, toolMessages |-> << >>]

\* Lines 284-306: the batch that is left, the callback's argument if the
\* callback is invoked, and this.toolCalls as it is while the callback runs
\* (line 302 comes after line 291).
CheckAndNotifyCompletion(calls) ==
  IF Len(calls) > 0 /\ AllCallsAreTerminal(calls)
    THEN [toolCalls |-> << >>, notified |-> TRUE, atCallback |-> << >>,
          completedCalls |-> calls,
          toolMessages |-> [i \in 1..Len(calls) |-> calls[i].response]]
    ELSE [toolCalls |-> calls, notified |-> FALSE, atCallback |-> calls,
          completedCalls |-> << >>, toolMessages |-> << >>]

\* What the ghost log keeps of a completed call: the request it came from
\* and the status it was completed in.
Origin(call) == [inv |-> call.inv, idx |-> call.idx, status |-> call.status]

\* ------------------------------------------------------------------ Turn, constructed
\* null, as the value of finalAssistantMessage and of a message's content;
\* undefined, as the value of a message's tool_calls.
NullContent == [isNull |-> TRUE, text |-> << >>]
NoToolCalls == [undefined |-> TRUE, calls |-> << >>]
NullMessage == [role |-> "null", content |-> NullContent, tool_calls |-> NoToolCalls]

\* A Turn after its constructor (logger.ts lines 379-383), run() not called.
TurnConstructed ==
  /\ turnPc = "new"
  /\ turnAfter = "none"
  /\ aborted = FALSE
  /\ fullResponseText = << >>
  /\ toolCallBuffers = << >>
  /\ outbox = << >>
  /\ pendingToolCalls = << >>
  /\ finalAssistantMessage = NullMessage
  /\ received = << >>
  /\ emitted = << >>
  /\ reported = 0
  /\ failures = << >>

\* ------------------------------------------------------------------ client, constructed
\* No client yet, main at its start.
ClientConstructed ==
  /\ clientFile = "none"
  /\ history = << >>
  /\ callPc = "none"
  /\ turns = 0
  /\ signalAborted = FALSE
  /\ turnNo = 0
  /\ turnErrored = FALSE
  /\ turnEvents = 0
  /\ budget = 0
  /\ historyAtCall = << >>
  /\ streamEvents = << >>
  /\ finalAppends = << >>
  /\ clientReports = 0
  /\ compressLog = << >>
  /\ speakerLog = << >>
  /\ turnLog = << >>
  /\ mainPc = "start"
  /\ exitCode = 0
  /\ scheduled = << >>

\* No call of executeSingleToolCall yet.
NoToolCall == [id |-> 0, name |-> "", arguments |-> ""]
ExecIdle ==
  /\ execPc = "idle"
  /\ execCall = NoToolCall
  /\ execInvoked = 0
  /\ execDone = << >>

\* A GrokApiClient after its constructor, no request made.
NoMessages == [preceding |-> 0, messages |-> << >>]
ApiConstructed ==
  /\ lastToolCallIds = << >>
  /\ apiPc = "idle"
  /\ apiRequests = 0
  /\ apiCalls = << >>
  /\ apiResponseNo = 0
  /\ apiSent = NoMessages

\* A Logger after its constructor (logger.ts lines 27-38), not initialized.
LoggerConstructed ==
  /\ initialized = FALSE
  /\ messageId = 0
  /\ logs = << >>
  /\ logFile = << >>
  /\ logCalls = << >>
  /\ logReturned = << >>

\* ------------------------------------------------------------------ actions
Init ==
  /\ toolCalls = << >>
  /\ pending = << >>
  /\ issued = << >>
  /\ busyThrown = {}
  /\ lookedUp = {}
  /\ confirmPhase = {}
  /\ executed = {}
  /\ completions = << >>
  /\ observed = << >>
  /\ TurnConstructed
  /\ ClientConstructed
  /\ ExecIdle
  /\ ApiConstructed
  /\ LoggerConstructed

\* The number of requests in the batches of a sequence.
RECURSIVE TotalRequests(_)
TotalRequests(batches) ==
  IF batches = << >> THEN 0
  ELSE Len(Head(batches)) + TotalRequests(Tail(batches))

\* schedule(requests, signal) up to its await (lines 202-205): it throws
\* if the scheduler is running, and is suspended otherwise.
ScheduleCall ==
  /\ Len(issued) < MaxInvocations
  /\ \E requests \in Batches :
       LET inv == Len(issued) + 1
       IN /\ TotalRequests(issued) + Len(requests) <= MaxRequests
          /\ issued' = Append(issued, requests)
          /\ IF IsRunning(toolCalls)
               THEN /\ busyThrown' = busyThrown \cup {inv}
                    /\ pending' = pending
               ELSE /\ busyThrown' = busyThrown
                    /\ pending' = Append(pending, inv)
  /\ UNCHANGED <<toolCalls, lookedUp, confirmPhase, executed, completions, observed>>
  /\ UNCHANGED <<turnVars, clientVars, execVars, apiVars, loggerVars>>

\* The schedule() calls the completion callback may issue while it runs: none,
\* or one with a batch that the bounds still allow.
FromCallback(notified) ==
  IF notified /\ Len(issued) < MaxInvocations
    THEN {<< >>} \cup {<<requests>> : requests \in
                         {b \in Batches : TotalRequests(issued) + Len(b) <= MaxRequests}}
    ELSE {<< >>}

\* schedule() from its await to its end (lines 207-247), for the invocation
\* suspended first.  If the completion callback is invoked (line 302) it may
\* call schedule() itself: that call runs lines 202-205 inside the callback,
\* against this.toolCalls as it is then, and is suspended behind the
\* invocations already waiting.
ScheduleResume ==
  /\ pending # << >>
  /\ \E inv \in {Head(pending)} :
     \E newToolCalls \in {NewToolCalls(issued[inv], inv)} :
     \E attempt \in {AttemptExecutionOfScheduledCalls(Concat(toolCalls, newToolCalls))} :
     \E done \in {CheckAndNotifyCompletion(attempt.calls)} :
     \E nested \in FromCallback(done.notified) :
        /\ issued' = issued \o nested
        /\ IF nested # << >> /\ IsRunning(done.atCallback)
             THEN /\ busyThrown' = busyThrown \cup {Len(issued) + 1}
                  /\ pending' = Tail(pending)
             ELSE /\ busyThrown' = busyThrown
                  /\ pending' = Tail(pending) \o [i \in 1..Len(nested) |-> Len(issued) + 1]
        /\ lookedUp' = lookedUp \cup Consulted(issued[inv], inv)
        /\ confirmPhase' = confirmPhase \cup ConfirmLoop(newToolCalls)
        /\ executed' = executed \cup attempt.invoked
        /\ toolCalls' = done.toolCalls
        /\ completions' =
             IF done.notified
               THEN Append(completions,
                           [by |-> inv,
                            toolMessages |-> done.toolMessages,
                            atCallback |-> done.atCallback,
                            nested |-> IF nested = << >> THEN 0 ELSE Len(issued) + 1,
                            completedCalls |->
                              [i \in 1..Len(done.completedCalls) |->
                                 Origin(done.completedCalls[i])]])
               ELSE completions
  /\ UNCHANGED observed
  /\ UNCHANGED <<turnVars, clientVars, execVars, apiVars, loggerVars>>

Next == ScheduleCall \/ ScheduleResume

Spec == Init /\ [][Next]_vars

\* The continuation of an await is run by the event loop.
FairSpec == Spec /\ WF_vars(ScheduleResume)

\* ------------------------------------------------------------------ observer
\* A scheduler constructed with an onToolCallsUpdate observer (lines 154,
\* 173).  Spec above is the scheduler of xai.tsx lines 174-185, which is
\* given none, so that notifyToolCallsUpdate does nothing.

\* The type Status, lines 97-106.
Statuses ==
  {"validating", "scheduled", "error", "success", "executing", "cancelled",
   "awaiting_approval"}

\* What an observer may do with the array it is given: nothing, remove the
\* array's last element, or write a status to one of its elements.
NoWrite == [kind |-> "none", pos |-> 0, status |-> ""]
ObserverWrites(calls) ==
  {NoWrite}
  \cup {[kind |-> "pop", pos |-> p, status |-> ""] : p \in {Len(calls)} \ {0}}
  \cup {[kind |-> "status", pos |-> p, status |-> st] : p \in 1..Len(calls), st \in Statuses}

\* Lines 308-312: the observer is called with [...this.toolCalls], a new
\* array whose elements are the scheduler's own call objects.  The array as
\* the observer leaves it, and this.toolCalls after the observer has run.
NotifyToolCallsUpdate(calls, write) ==
  LET written == IF write.kind = "status"
                   THEN [calls EXCEPT ![write.pos].status = write.status]
                   ELSE calls
  IN [argument |-> IF write.kind = "pop" THEN SubSeq(calls, 1, Len(calls) - 1) ELSE written,
      toolCalls |-> written]

StatusesOf(calls) == [i \in 1..Len(calls) |-> calls[i].status]

\* schedule() from its await to its end, with an observer: it is called at
\* line 238 with the batch just extended and, if the batch completes, at line
\* 304 with the emptied one.  The callbacks of lines 267-279 are attached to
\* the calls dispatched; they change nothing, setStatusInternal being empty.
ScheduleResumeObserved ==
  /\ pending # << >>
  /\ \E inv \in {Head(pending)} :
     \E extended \in {Concat(toolCalls, NewToolCalls(issued[inv], inv))} :
     \E write \in ObserverWrites(extended) :
     \E update \in {NotifyToolCallsUpdate(extended, write)} :
     \E attempt \in {AttemptExecutionOfScheduledCalls(update.toolCalls)} :
     \E done \in {CheckAndNotifyCompletion(attempt.calls)} :
     \E last \in {NotifyToolCallsUpdate(done.toolCalls, NoWrite)} :
        /\ pending' = Tail(pending)
        /\ lookedUp' = lookedUp \cup Consulted(issued[inv], inv)
        /\ confirmPhase' = confirmPhase
                             \cup ConfirmLoop(SubSeq(update.toolCalls, Len(toolCalls) + 1,
                                                     Len(update.toolCalls)))
        /\ executed' = executed \cup attempt.invoked
        /\ toolCalls' = IF done.notified THEN last.toolCalls ELSE done.toolCalls
        /\ completions' =
             IF done.notified
               THEN Append(completions,
                           [by |-> inv,
                            toolMessages |-> done.toolMessages,
                            atCallback |-> done.atCallback,
                            nested |-> 0,
                            completedCalls |->
                              [i \in 1..Len(done.completedCalls) |->
                                 Origin(done.completedCalls[i])]])
               ELSE completions
        /\ observed' =
             observed
             \o <<[line |-> 238, write |-> write.kind,
                   before |-> StatusesOf(extended),
                   after |-> StatusesOf(update.toolCalls)]>>
             \o (IF done.notified
                   THEN <<[line |-> 304, write |-> NoWrite.kind,
                           before |-> StatusesOf(done.toolCalls),
                           after |-> StatusesOf(last.toolCalls)]>>
                   ELSE << >>)
  /\ UNCHANGED <<issued, busyThrown>>
  /\ UNCHANGED <<turnVars, clientVars, execVars, apiVars, loggerVars>>

ObservedNext == ScheduleCall \/ ScheduleResumeObserved

ObservedSpec == Init /\ [][ObservedNext]_vars

\* ------------------------------------------------------------------ views
\* The schedule() calls whose continuation has run.
Resumed ==
  {i \in 1..Len(issued) :
     i \notin busyThrown /\ \A p \in 1..Len(pending) : pending[p] # i}

\* Every call the scheduler has made so far, in the batch or handed to the
\* completion callback, with its result message.
Outcomes ==
  {[inv |-> toolCalls[p].inv, idx |-> toolCalls[p].idx,
    status |-> toolCalls[p].status, response |-> toolCalls[p].response,
    delivered |-> 0] : p \in 1..Len(toolCalls)}
  \cup UNION {
    {[inv |-> completions[k].completedCalls[p].inv,
      idx |-> completions[k].completedCalls[p].idx,
      status |-> completions[k].completedCalls[p].status,
      response |-> completions[k].toolMessages[p],
      delivered |-> k] : p \in 1..Len(completions[k].completedCalls)}
    : k \in 1..Len(completions)}

OutcomesOf(i, j) == {o \in Outcomes : o.inv = i /\ o.idx = j}

Contains(content, fragment) == \E n \in 1..Len(content) : content[n] = fragment

\* The completion callback has been given a result of request j of call i.
DeliveredFor(i) == \E o \in Outcomes : o.inv = i /\ o.delivered > 0

\* ------------------------------------------------------------------ claims

\* C1: every batch of at least one request handed to schedule() is
\* eventually followed by an invocation of onAllToolCallsComplete for it.
C1_EveryBatchCompletes ==
  \A i \in 1..MaxInvocations :
    []((i \in Resumed /\ Len(issued[i]) >= 1) => <>DeliveredFor(i))

\* C2: an invocation of onAllToolCallsComplete made by the schedule() call of
\* a batch of N requests carries exactly N messages, the j-th with the id of
\* the j-th request, and no request's result is handed over twice.
C2_CompletionOnceInOrder ==
  /\ \A k \in 1..Len(completions) :
       LET c == completions[k]
       IN /\ Len(c.toolMessages) = Len(issued[c.by])
          /\ \A j \in 1..Len(c.toolMessages) :
               c.toolMessages[j].tool_call_id = issued[c.by][j].id
  /\ \A i \in 1..Len(issued) : \A j \in 1..Len(issued[i]) :
       Cardinality({o \in OutcomesOf(i, j) : o.delivered > 0}) <= 1
  /\ \A k1, k2 \in 1..Len(completions) :
       completions[k1].by = completions[k2].by => k1 = k2

\* Two batches have completed, the first with two results.
C2_Witness ==
  /\ Len(completions) = 2
  /\ Len(completions[1].toolMessages) = 2
  /\ Len(completions[2].toolMessages) >= 1

\* C4: the batch never holds calls made by two different schedule() calls.
C4_OneBatchAtATime ==
  \A p, q \in 1..Len(toolCalls) : toolCalls[p].inv = toolCalls[q].inv

\* C5: a request whose argument text does not parse is made an 'error' call
\* whose message holds the raw text; getTool() and execute() are not called
\* for it, and every request of its batch is admitted.
Unparsable(i, j) == ~JsonParse(issued[i][j].arguments).ok

C5_UnparsableIsError ==
  \A i \in Resumed : \A j \in 1..Len(issued[i]) :
    Unparsable(i, j) =>
      /\ OutcomesOf(i, j) # {}
      /\ \A o \in OutcomesOf(i, j) :
           /\ o.status = "error"
           /\ o.response.tool_call_id = issued[i][j].id
           /\ Contains(o.response.content, issued[i][j].arguments)
      /\ <<i, j>> \notin lookedUp
      /\ <<i, j>> \notin executed
      /\ \A j2 \in 1..Len(issued[i]) : OutcomesOf(i, j2) # {}

\* An unparsable request naming a registered tool has been admitted next to
\* a parsable request of the same batch, which is 'validating'.
C5_Witness ==
  \E i \in Resumed : \E j, j2 \in 1..Len(issued[i]) :
    /\ Unparsable(i, j)
    /\ issued[i][j].name \in RegisteredTools
    /\ \E o \in OutcomesOf(i, j) : o.status = "error"
    /\ \E o \in OutcomesOf(i, j2) : o.status = "validating"

\* C6, as claimed: a request naming an unregistered tool is made an 'error'
\* call whose message names the tool; it is never 'validating' or
\* 'awaiting_approval', never enters the confirmation loop, never executes.
Unregistered(i, j) == issued[i][j].name \notin RegisteredTools

NeverConfirmedNorRun(i, j) ==
  /\ OutcomesOf(i, j) # {}
  /\ \A o \in OutcomesOf(i, j) : o.status = "error"
  /\ <<i, j>> \notin confirmPhase
  /\ <<i, j>> \notin executed

C6_UnregisteredNamesTool ==
  \A i \in Resumed : \A j \in 1..Len(issued[i]) :
    Unregistered(i, j) =>
      /\ NeverConfirmedNorRun(i, j)
      /\ \A o \in OutcomesOf(i, j) :
           Contains(o.response.content, issued[i][j].name)

\* C6, amended: the message names the tool when the arguments parse; when
\* they do not, it is the parse failure's message, which holds the raw text.
C6_UnregisteredIsError ==
  \A i \in Resumed : \A j \in 1..Len(issued[i]) :
    Unregistered(i, j) =>
      /\ NeverConfirmedNorRun(i, j)
      /\ \A o \in OutcomesOf(i, j) :
           IF Unparsable(i, j)
             THEN o.response.content =
                    <<"Tool execution failed with error: ",
                      "Failed to parse tool arguments as JSON: ",
                      issued[i][j].arguments>>
             ELSE o.response.content =
                    <<"Tool execution failed with error: ",
                      "Tool \"", issued[i][j].name, "\" not found in registry.">>

\* A batch with an unregistered tool named twice, once with arguments that
\* parse and once with arguments that do not, has been admitted.
C6_Witness ==
  \E i \in Resumed : \E j, j2 \in 1..Len(issued[i]) :
    /\ Unregistered(i, j) /\ ~Unparsable(i, j)
    /\ Unregistered(i, j2) /\ Unparsable(i, j2)
    /\ \E o \in OutcomesOf(i, j) : o.status = "error"

\* C9: onAllToolCallsComplete is invoked only with a batch that is not empty
\* and whose calls are all 'success', 'error' or 'cancelled', and never by a
\* schedule() call that was given no request.
C9_CompletionOnlyWhenAllTerminal ==
  \A k \in 1..Len(completions) :
    /\ Len(completions[k].completedCalls) > 0
    /\ \A p \in 1..Len(completions[k].completedCalls) :
         completions[k].completedCalls[p].status \in Terminal
    /\ Len(issued[completions[k].by]) > 0

\* One batch has completed and a schedule() call with no request has run.
C9_Witness ==
  /\ Len(completions) = 1
  /\ Len(completions[1].completedCalls) >= 1
  /\ \E i \in Resumed : Len(issued[i]) = 0

\* C10: the batch <<registered tool, unregistered tool>> ends with no
\* execute() and with the completion callback given, in request order, the
\* result of a 'cancelled' call and the not-found message of an 'error' call.
ScenarioBatch ==
  <<[id |-> 2, name |-> "write", arguments |-> HiJson],
    [id |-> 1, name |-> "nope", arguments |-> HiJson]>>

ScenarioDelivered(i) ==
  \E k \in 1..Len(completions) :
    /\ completions[k].by = i
    /\ Len(completions[k].completedCalls) = 2
    /\ completions[k].completedCalls[1].status = "cancelled"
    /\ completions[k].completedCalls[2].status = "error"
    /\ completions[k].toolMessages[1].tool_call_id = 2
    /\ completions[k].toolMessages[2].tool_call_id = 1
    /\ Contains(completions[k].toolMessages[2].content, "\" not found in registry.")

C10_RejectedAndNotFound ==
  \A i \in 1..MaxInvocations :
    []((i \in Resumed /\ issued[i] = ScenarioBatch)
         => /\ \A j \in 1..2 : <<i, j>> \notin executed
            /\ <>ScenarioDelivered(i))

\* C22: the batch of the single request {id 1, a registered tool,
\* {"text":"hi"}} is eventually completed, once, with the single result of a
\* 'success' call that carries the request's id and the content "hi".
EchoBatch == <<[id |-> 1, name |-> "write", arguments |-> HiJson]>>

EchoDelivered(i) ==
  \E k \in 1..Len(completions) :
    /\ completions[k].by = i
    /\ Len(completions[k].completedCalls) = 1
    /\ completions[k].completedCalls[1].status = "success"
    /\ completions[k].toolMessages[1].tool_call_id = 1
    /\ completions[k].toolMessages[1].content = <<"hi">>

C22_EchoSucceeds ==
  \A i \in 1..MaxInvocations :
    []((i \in Resumed /\ issued[i] = EchoBatch) => <>EchoDelivered(i))

\* C27: once schedule() has run for a batch, the call of a request that
\* parses and names a registered tool has left 'validating', for
\* 'awaiting_approval' if its tool asks for confirmation and for 'scheduled'
\* otherwise, and no execute() was invoked for a call awaiting approval.
Admissible(i, j) == ~Unparsable(i, j) /\ ~Unregistered(i, j)

C27_ConfirmationDecidesStatus ==
  \A i \in Resumed : \A j \in 1..Len(issued[i]) :
    Admissible(i, j) =>
      \A o \in OutcomesOf(i, j) :
        /\ o.status # "validating"
        /\ o.status = "awaiting_approval" => <<i, j>> \notin executed

\* C29: an onToolCallsUpdate observer is given the whole current batch and
\* cannot change the scheduler's state through what it is given: after each
\* notification the calls of the batch have the statuses they had before it.
C29_ObserverCannotChangeBatch ==
  \A k \in 1..Len(observed) : observed[k].after = observed[k].before

\* C30: whenever onAllToolCallsComplete has been invoked, this.toolCalls was
\* empty while it ran; a schedule() call it issued was not rejected as busy,
\* and no completed call is ever in the batch again.
Completed(call) ==
  \E k \in 1..Len(completions) : \E q \in 1..Len(completions[k].completedCalls) :
    /\ completions[k].completedCalls[q].inv = call.inv
    /\ completions[k].completedCalls[q].idx = call.idx

C30_BatchEmptiedBeforeCallback ==
  /\ \A k \in 1..Len(completions) :
       /\ completions[k].atCallback = << >>
       /\ completions[k].nested # 0 => completions[k].nested \notin busyThrown
  /\ \A p \in 1..Len(toolCalls) : ~Completed(toolCalls[p])

\* A completion callback has called schedule() with a batch that is not
\* empty; that call has run and its calls are in the batch.
C30_Witness ==
  \E k \in 1..Len(completions) :
    /\ completions[k].nested # 0
    /\ completions[k].nested \in Resumed
    /\ \E p \in 1..Len(toolCalls) : toolCalls[p].inv = completions[k].nested

\* The statuses a call may rest in once the promise of its schedule() call
\* has resolved.
Settled == {"awaiting_approval", "scheduled", "executing"} \cup Terminal

\* C39: once the promise of a schedule() call has resolved, none of its
\* calls is 'validating'; so the batch never holds a 'validating' call while
\* no schedule() call is under way and isRunning() is false.
C39_NoCallRestsValidating ==
  /\ \A i \in Resumed : \A o \in Outcomes : o.inv = i => o.status \in Settled
  /\ (pending = << >> /\ ~IsRunning(toolCalls)) =>
       \A p \in 1..Len(toolCalls) : toolCalls[p].status # "validating"

\* ========================================================================
\* Turn.run, packages/core/src/core/logger.ts lines 399-515.
\*
\* run() is an async generator.  It is suspended at its awaits (the
\* registry, the opening of the stream, each read of the stream, the error
\* reporter) and at each yield, where the event is in the consumer's hands
\* and the generator waits to be resumed.  The code between two suspension
\* points runs uninterrupted; the cancellation token changes only while the
\* generator is suspended.
\* ========================================================================

\* ------------------------------------------------------------------ bounds
\* Number of chunks read from one stream.
MaxChunks == 3

\* ------------------------------------------------------------------ inputs
\* delta.content of a chunk; "" stands for a chunk that carries no text.
Texts == {"Hello", " world"}

\* toolCallChunk.index
Indexes == {0, 1}

\* An element of delta.tool_calls; "" stands for an absent id, name or
\* arguments fragment.  At index 0 every combination occurs; at index 1 the
\* element carries an id, or a name with arguments, or all three.
ToolCallChunks ==
  {tc \in [index : Indexes, id : {"", "call_1"}, name : {"", "ls"},
           arguments : {"", "{}"}] :
     tc.index = 0 \/ (((tc.name = "") <=> (tc.arguments = ""))
                       /\ (tc.id # "" \/ tc.name # ""))}

\* A chunk without choices[0].delta.
NoDelta == [hasDelta |-> FALSE, content |-> "", tool_calls |-> << >>]

\* The start of a tool call that comes together with text.
StartOfCall == [index |-> 0, id |-> "call_1", name |-> "ls", arguments |-> "{}"]

\* The chunks a stream may deliver.
Chunks ==
  {NoDelta}
  \cup {[hasDelta |-> TRUE, content |-> c, tool_calls |-> << >>] : c \in Texts \cup {""}}
  \cup {[hasDelta |-> TRUE, content |-> "", tool_calls |-> <<tc>>] : tc \in ToolCallChunks}
  \cup {[hasDelta |-> TRUE, content |-> "Hello", tool_calls |-> <<StartOfCall>>]}

\* ------------------------------------------------------------------ events
ContentDelta(fragment) ==
  [type |-> "ContentDelta", text |-> fragment, name |-> << >>, index |-> 0,
   cancelled |-> FALSE]

\* `name` is the buffered name: the sequence of the name fragments so far.
\* `index` is a ghost: the index of the buffer the event is about.
ToolCallStart(bufferName, index) ==
  [type |-> "ToolCallStart", text |-> "", name |-> bufferName, index |-> index,
   cancelled |-> FALSE]

ToolCallDelta(bufferName, argsChunk, index) ==
  [type |-> "ToolCallDelta", text |-> argsChunk, name |-> bufferName,
   index |-> index, cancelled |-> FALSE]

ToolCallEnd(toolCall) ==
  [type |-> "ToolCallEnd", text |-> "", name |-> toolCall.name,
   index |-> toolCall.index, cancelled |-> FALSE]

ErrorEvent ==
  [type |-> "Error", text |-> "message", name |-> << >>, index |-> 0,
   cancelled |-> FALSE]

\* The event as the consumer gets it, with a ghost: the state of the token
\* at that moment.
Stamp(event, isAborted) == [event EXCEPT !.cancelled = isAborted]

\* ------------------------------------------------------------------ chunks
\* A buffer is made for an index on its first fragment, id or no id.
ProcessToolCallChunk_AlwaysBuffers(buffers, toolCallChunk) ==
  LET index == toolCallChunk.index
      started ==
        IF toolCallChunk.id # "" \/ index \notin DOMAIN buffers
          THEN [i \in DOMAIN buffers \cup {index} |->
                  IF i = index
                    THEN [id |-> toolCallChunk.id, name |-> << >>,
                          arguments |-> << >>, index |-> index]
                    ELSE buffers[i]]
          ELSE buffers
      named ==
        IF toolCallChunk.name # ""
          THEN [started EXCEPT ![index].name = Append(@, toolCallChunk.name)]
          ELSE started
      filled ==
        IF toolCallChunk.arguments # ""
          THEN [named EXCEPT ![index].arguments = Append(@, toolCallChunk.arguments)]
          ELSE named
  IN [buffers |-> filled,
      events |-> (IF toolCallChunk.name # ""
                    THEN <<ToolCallStart(named[index].name, index)>> ELSE << >>)
                 \o (IF toolCallChunk.arguments # ""
                       THEN <<ToolCallDelta(named[index].name, toolCallChunk.arguments, index)>>
                       ELSE << >>)]

\* Lines 441-466, for one element of delta.tool_calls.
ProcessToolCallChunk(buffers, toolCallChunk) ==
  LET index == toolCallChunk.index
      started ==
        IF toolCallChunk.id # ""
          THEN [i \in DOMAIN buffers \cup {index} |->
                  IF i = index
                    THEN [id |-> toolCallChunk.id, name |-> << >>,
                          arguments |-> << >>, index |-> index]
                    ELSE buffers[i]]
          ELSE buffers
  IN IF index \notin DOMAIN started
       THEN [buffers |-> started, events |-> << >>]
       ELSE LET named ==
                  IF toolCallChunk.name # ""
                    THEN [started EXCEPT ![index].name = Append(@, toolCallChunk.name)]
                    ELSE started
                startEvents ==
                  IF toolCallChunk.name # ""
                    THEN <<ToolCallStart(named[index].name, index)>>
                    ELSE << >>
                filled ==
                  IF toolCallChunk.arguments # ""
                    THEN [named EXCEPT ![index].arguments = Append(@, toolCallChunk.arguments)]
                    ELSE named
                deltaEvents ==
                  IF toolCallChunk.arguments # ""
                    THEN <<ToolCallDelta(named[index].name, toolCallChunk.arguments, index)>>
                    ELSE << >>
            IN [buffers |-> filled, events |-> startEvents \o deltaEvents]

\* Lines 439-467: the loop over delta.tool_calls.
RECURSIVE ProcessToolCalls(_, _)
ProcessToolCalls(buffers, toolCallChunks) ==
  IF toolCallChunks = << >>
    THEN [buffers |-> buffers, events |-> << >>]
    ELSE LET first == ProcessToolCallChunk(buffers, Head(toolCallChunks))
             rest == ProcessToolCalls(first.buffers, Tail(toolCallChunks))
         IN [buffers |-> rest.buffers, events |-> first.events \o rest.events]

\* The fragment is put in front of the text.
ProcessChunk_Prepends(text, buffers, chunk) ==
  IF ~chunk.hasDelta
    THEN [text |-> text, buffers |-> buffers, events |-> << >>]
    ELSE LET tools == ProcessToolCalls(buffers, chunk.tool_calls)
         IN IF chunk.content # ""
              THEN [text |-> <<chunk.content>> \o text,
                    buffers |-> tools.buffers,
                    events |-> <<ContentDelta(chunk.content)>> \o tools.events]
              ELSE [text |-> text, buffers |-> tools.buffers, events |-> tools.events]

\* Lines 429-467: what one chunk does to the text, to the buffers, and the
\* events it yields, in order.  The text is the sequence of its fragments.
ProcessChunk(text, buffers, chunk) ==
  IF ~chunk.hasDelta
    THEN [text |-> text, buffers |-> buffers, events |-> << >>]
    ELSE LET tools == ProcessToolCalls(buffers, chunk.tool_calls)
         IN IF chunk.content # ""
              THEN [text |-> Append(text, chunk.content),
                    buffers |-> tools.buffers,
                    events |-> <<ContentDelta(chunk.content)>> \o tools.events]
              ELSE [text |-> text, buffers |-> tools.buffers, events |-> tools.events]

\* Object.values of an object with integer keys: in ascending key order.
RECURSIVE ObjectValues(_, _)
ObjectValues(obj, keys) ==
  IF keys = {} THEN << >>
  ELSE LET k == CHOOSE x \in keys : \A y \in keys : x <= y
       IN <<obj[k]>> \o ObjectValues(obj, keys \ {k})

\* Lines 471-481.  `index` is a ghost.
CompletedToolCalls(buffers) ==
  LET values == ObjectValues(buffers, DOMAIN buffers)
  IN [i \in 1..Len(values) |->
        [id |-> values[i].id, type |-> "function", name |-> values[i].name,
         arguments |-> values[i].arguments, index |-> values[i].index]]

\* tool_calls is the list of pending calls also when it is empty.
FinalAssistantMessage_EmptyCalls(text, pendingCalls) ==
  [role |-> "assistant",
   content |-> IF text = << >> THEN NullContent ELSE [isNull |-> FALSE, text |-> text],
   tool_calls |-> [undefined |-> FALSE, calls |-> pendingCalls]]

\* Lines 491-495.
FinalAssistantMessage(text, pendingCalls) ==
  [role |-> "assistant",
   content |-> IF text = << >> THEN NullContent ELSE [isNull |-> FALSE, text |-> text],
   tool_calls |-> IF Len(pendingCalls) > 0
                    THEN [undefined |-> FALSE, calls |-> pendingCalls]
                    ELSE NoToolCalls]

\* A chunk is processed whatever the token says.
CancelledAtChunk_Never(isAborted) == FALSE

\* Line 424: the test made when a chunk arrives.
CancelledAtChunk(isAborted) == isAborted

\* Line 498: the test made when the catch clause is entered.
CancelledAtFailure(isAborted) == isAborted

\* The Error event is yielded twice.
CatchEvents_Twice == <<ErrorEvent, ErrorEvent>>

\* Lines 509-512: the events of the catch clause.
CatchEvents == <<ErrorEvent>>

\* ------------------------------------------------------------------ actions
\* The generator goes on with `events` to yield and `after` to do once the
\* last of them has been taken: it yields the first event, or does `after`.
Continue(events, after, text, pendingCalls) ==
  IF events # << >>
    THEN /\ emitted' = Append(emitted, Stamp(Head(events), aborted))
         /\ outbox' = Tail(events)
         /\ turnPc' = "suspended"
         /\ turnAfter' = after
         /\ finalAssistantMessage' = finalAssistantMessage
    ELSE /\ emitted' = emitted
         /\ outbox' = << >>
         /\ turnAfter' = "none"
         /\ turnPc' = IF after = "reading" THEN "reading" ELSE "done"
         /\ finalAssistantMessage' =
              IF after = "finish"
                THEN FinalAssistantMessage(text, pendingCalls)
                ELSE finalAssistantMessage

\* The catch clause, lines 497-514, up to its await.
Catch ==
  /\ failures' = Append(failures, [cancelled |-> aborted])
  /\ IF CancelledAtFailure(aborted)
       THEN /\ turnPc' = "done"
            /\ reported' = reported
       ELSE /\ turnPc' = "reporting"
            /\ reported' = reported + 1
  /\ UNCHANGED <<aborted, received, fullResponseText, toolCallBuffers, outbox,
                 turnAfter, emitted, pendingToolCalls, finalAssistantMessage>>

\* run() is called and started: it is suspended at line 404 or 408.
Run ==
  /\ turnPc = "new"
  /\ turnPc' = "opening"
  /\ UNCHANGED <<aborted, received, fullResponseText, toolCallBuffers, outbox,
                 turnAfter, emitted, pendingToolCalls, finalAssistantMessage,
                 reported, failures>>
  /\ UNCHANGED <<schedVars, clientVars, execVars, apiVars, loggerVars>>

\* Lines 404-412: the registry and the stream are there.
OpenStream ==
  /\ turnPc = "opening"
  /\ turnPc' = "reading"
  /\ UNCHANGED <<aborted, received, fullResponseText, toolCallBuffers, outbox,
                 turnAfter, emitted, pendingToolCalls, finalAssistantMessage,
                 reported, failures>>
  /\ UNCHANGED <<schedVars, clientVars, execVars, apiVars, loggerVars>>

\* Lines 404-412: the registry or the opening of the stream fails.
OpenFails ==
  /\ turnPc = "opening"
  /\ Catch
  /\ UNCHANGED <<schedVars, clientVars, execVars, apiVars, loggerVars>>

\* Lines 423-468: the stream delivers a chunk.
ReadChunk ==
  /\ turnPc = "reading"
  /\ Len(received) < MaxChunks
  /\ \E chunk \in Chunks :
       /\ received' = Append(received, [chunk |-> chunk, cancelled |-> aborted])
       /\ IF CancelledAtChunk(aborted)
            THEN /\ turnPc' = "done"
                 /\ UNCHANGED <<fullResponseText, toolCallBuffers, outbox,
                                turnAfter, emitted, finalAssistantMessage>>
            ELSE \E step \in {ProcessChunk(fullResponseText, toolCallBuffers, chunk)} :
                   /\ fullResponseText' = step.text
                   /\ toolCallBuffers' = step.buffers
                   /\ Continue(step.events, "reading", step.text, pendingToolCalls)
  /\ UNCHANGED <<aborted, pendingToolCalls, reported, failures>>
  /\ UNCHANGED <<schedVars, clientVars, execVars, apiVars, loggerVars>>

\* Lines 470-495: the stream ends.
StreamEnds ==
  /\ turnPc = "reading"
  /\ \E completedToolCalls \in {CompletedToolCalls(toolCallBuffers)} :
       /\ pendingToolCalls' =
            IF Len(completedToolCalls) > 0 THEN completedToolCalls ELSE pendingToolCalls
       /\ Continue([i \in 1..Len(completedToolCalls) |-> ToolCallEnd(completedToolCalls[i])],
                   "finish", fullResponseText, pendingToolCalls')
  /\ UNCHANGED <<aborted, received, fullResponseText, toolCallBuffers, reported, failures>>
  /\ UNCHANGED <<schedVars, clientVars, execVars, apiVars, loggerVars>>

\* A read of the stream throws.
StreamFails ==
  /\ turnPc = "reading"
  /\ Catch
  /\ UNCHANGED <<schedVars, clientVars, execVars, apiVars, loggerVars>>

\* The consumer asks for the next event: the generator goes on after its
\* yield.
Resume ==
  /\ turnPc = "suspended"
  /\ Continue(outbox, turnAfter, fullResponseText, pendingToolCalls)
  /\ UNCHANGED <<aborted, received, fullResponseText, toolCallBuffers,
                 pendingToolCalls, reported, failures>>
  /\ UNCHANGED <<schedVars, clientVars, execVars, apiVars, loggerVars>>

\* Lines 501-512: the error reporter is done.
Reported ==
  /\ turnPc = "reporting"
  /\ Continue(CatchEvents, "return", fullResponseText, pendingToolCalls)
  /\ UNCHANGED <<aborted, received, fullResponseText, toolCallBuffers,
                 pendingToolCalls, reported, failures>>
  /\ UNCHANGED <<schedVars, clientVars, execVars, apiVars, loggerVars>>

\* The holder of the AbortController cancels the token.
Abort ==
  /\ turnPc # "done"
  /\ ~aborted
  /\ aborted' = TRUE
  /\ UNCHANGED <<turnPc, received, fullResponseText, toolCallBuffers, outbox,
                 turnAfter, emitted, pendingToolCalls, finalAssistantMessage,
                 reported, failures>>
  /\ UNCHANGED <<schedVars, clientVars, execVars, apiVars, loggerVars>>

TurnNext ==
  \/ Run
  \/ OpenStream
  \/ OpenFails
  \/ ReadChunk
  \/ StreamEnds
  \/ StreamFails
  \/ Resume
  \/ Reported
  \/ Abort

TurnSpec == Init /\ [][TurnNext]_vars

\* ------------------------------------------------------------------ views
\* The text fragments of a sequence of received chunks, in order.
RECURSIVE Fragments(_)
Fragments(arrivals) ==
  IF arrivals = << >> THEN << >>
  ELSE LET c == Head(arrivals).chunk
       IN (IF c.hasDelta /\ c.content # "" THEN <<c.content>> ELSE << >>)
          \o Fragments(Tail(arrivals))

\* The chunks that arrived while the token was not cancelled.
Processed == SelectSeq(received, LAMBDA r : ~r.cancelled)

\* The events of one type, in the order they were yielded.
EventsOfType(type) == SelectSeq(emitted, LAMBDA e : e.type = type)

ContentDeltaValues ==
  LET deltas == EventsOfType("ContentDelta")
  IN [i \in 1..Len(deltas) |-> deltas[i].text]

\* A received chunk carried an id for the index.
IdReceived(index) ==
  \E k \in 1..Len(received) :
    /\ received[k].chunk.hasDelta
    /\ \E j \in 1..Len(received[k].chunk.tool_calls) :
         /\ received[k].chunk.tool_calls[j].index = index
         /\ received[k].chunk.tool_calls[j].id # ""

\* run() entered its catch clause with the token not cancelled.
FailedUncancelled == \E k \in 1..Len(failures) : ~failures[k].cancelled

\* ------------------------------------------------------------------ claims
\* C12, as stated: the ContentDelta values are the text fragments of the
\* received chunks, in order, and the content of the final assistant message
\* is their concatenation.
C12_TextInOrder ==
  /\ ContentDeltaValues = Fragments(received)
  /\ finalAssistantMessage # NullMessage
       => finalAssistantMessage.content = [isNull |-> FALSE, text |-> Fragments(received)]

\* C12, amended: at every moment, so also before the next chunk is read, the
\* ContentDelta values are the text fragments of the chunks that arrived while
\* the token was not cancelled, in order; the content of the final assistant
\* message is their concatenation if there is one, and null if there is none.
C12_TextInOrderUnlessNone ==
  /\ ContentDeltaValues = Fragments(Processed)
  /\ finalAssistantMessage # NullMessage
       => /\ Processed = received
          /\ finalAssistantMessage.content =
               IF Fragments(received) = << >>
                 THEN NullContent
                 ELSE [isNull |-> FALSE, text |-> Fragments(received)]

\* A stream with two different text fragments has run to its end.
C12_Witness ==
  /\ finalAssistantMessage # NullMessage
  /\ Len(ContentDeltaValues) >= 2
  /\ ContentDeltaValues[1] # ContentDeltaValues[2]

\* C13: an index for which no chunk carried an id has no ToolCallEnd event,
\* is not in pendingToolCalls and is not in the final assistant message; when
\* no index received an id, the final assistant message has no tool calls.
C13_NoIdNeverFinalized ==
  /\ \A index \in Indexes :
       ~IdReceived(index) =>
         /\ \A k \in 1..Len(emitted) :
              ~(emitted[k].type = "ToolCallEnd" /\ emitted[k].index = index)
         /\ \A k \in 1..Len(pendingToolCalls) : pendingToolCalls[k].index # index
         /\ \A k \in 1..Len(finalAssistantMessage.tool_calls.calls) :
              finalAssistantMessage.tool_calls.calls[k].index # index
  /\ (finalAssistantMessage # NullMessage /\ \A index \in Indexes : ~IdReceived(index))
       => finalAssistantMessage.tool_calls = NoToolCalls

\* The stream of the scenario: text "Hello", the name "ls" at index 0 without
\* an id, the end of the stream.
C13_Witness ==
  /\ turnPc = "done"
  /\ finalAssistantMessage # NullMessage
  /\ Len(received) = 2
  /\ received[1].chunk = [hasDelta |-> TRUE, content |-> "Hello", tool_calls |-> << >>]
  /\ received[2].chunk =
       [hasDelta |-> TRUE, content |-> "",
        tool_calls |-> <<[index |-> 0, id |-> "", name |-> "ls", arguments |-> ""]>>]
  /\ Len(emitted) = 1
  /\ emitted[1].type = "ContentDelta"
  /\ emitted[1].text = "Hello"

\* A chunk arrives or the catch clause is entered.
ChunkOrFailure ==
  Len(received') > Len(received) \/ Len(failures') > Len(failures)

\* C14, as stated: once the token is cancelled no event is emitted, and
\* run() ends when the next chunk arrives or the stream fails.
C14_SilentOnceCancelled ==
  [][aborted => /\ emitted' = emitted
                /\ ChunkOrFailure => turnPc' = "done"]_vars

\* C14, amended: when a chunk arrives or the stream fails while the token is
\* cancelled, run() ends there, with no event, no report, no pending tool
\* call and no final assistant message.
C14_EndsAtChunkOrFailure ==
  [][(aborted /\ ChunkOrFailure) =>
       /\ turnPc' = "done"
       /\ emitted' = emitted
       /\ reported' = reported
       /\ pendingToolCalls' = pendingToolCalls
       /\ finalAssistantMessage' = finalAssistantMessage]_vars

\* run() has ended on a chunk that arrived after the token was cancelled,
\* having emitted events before.
C14_Witness ==
  /\ turnPc = "done"
  /\ Len(emitted) > 0
  /\ Len(received) > 0
  /\ received[Len(received)].cancelled

\* C15: after a failure with the token not cancelled, the error has been
\* reported once, and once the reporter is done there is exactly one Error
\* event, it is the last event, and run() returns when it is resumed; without
\* such a failure nothing is reported and there is no Error event.
C15_FailureReportedOnce ==
  IF FailedUncancelled
    THEN /\ reported = 1
         /\ Len(failures) = 1
         /\ turnPc \in {"reporting", "suspended", "done"}
         /\ turnPc = "reporting" => EventsOfType("Error") = << >>
         /\ turnPc # "reporting" =>
              /\ Len(EventsOfType("Error")) = 1
              /\ emitted[Len(emitted)].type = "Error"
         /\ turnPc = "suspended" => (outbox = << >> /\ turnAfter = "return")
    ELSE /\ reported = 0
         /\ EventsOfType("Error") = << >>

\* A stream failed after events were emitted, and run() has ended.
C15_Witness ==
  /\ FailedUncancelled
  /\ turnPc = "done"
  /\ Len(emitted) >= 2

\* The elements of delta.tool_calls of a sequence of received chunks, in
\* order.
RECURSIVE ToolCallChunksOf(_)
ToolCallChunksOf(arrivals) ==
  IF arrivals = << >> THEN << >>
  ELSE LET c == Head(arrivals).chunk
       IN (IF c.hasDelta THEN c.tool_calls ELSE << >>)
          \o ToolCallChunksOf(Tail(arrivals))

\* The name fragments received for an index, in order.
NameFragments(index) ==
  LET of == SelectSeq(ToolCallChunksOf(received),
                      LAMBDA tc : tc.index = index /\ tc.name # "")
  IN [i \in 1..Len(of) |-> of[i].name]

\* The arguments fragments received for an index, in order.
ArgumentFragments(index) ==
  LET of == SelectSeq(ToolCallChunksOf(received),
                      LAMBDA tc : tc.index = index /\ tc.arguments # "")
  IN [i \in 1..Len(of) |-> of[i].arguments]

\* The ids received for an index.
IdsReceived(index) ==
  LET all == ToolCallChunksOf(received)
  IN {all[k].id : k \in {j \in 1..Len(all) : all[j].index = index /\ all[j].id # ""}}

\* The events of one type about one index, in the order they were yielded.
EventsAbout(type, index) ==
  SelectSeq(emitted, LAMBDA e : e.type = type /\ e.index = index)

\* The stream was read to its end and run() has returned after line 495.
RanToEnd == turnPc = "done" /\ finalAssistantMessage # NullMessage

\* C31: for every tool-call index there is at most one ToolCallStart event,
\* and it is emitted when the name of that index becomes non-empty, so that
\* it carries the first name fragment alone, also when the name arrives in
\* several fragments.
C31_StartOncePerIndex ==
  \A index \in Indexes :
    /\ Len(EventsAbout("ToolCallStart", index)) <= 1
    /\ \A k \in 1..Len(EventsAbout("ToolCallStart", index)) :
         Len(EventsAbout("ToolCallStart", index)[k].name) = 1

\* C32: when the stream has run to its end, every index that received an id
\* has a call in pendingToolCalls with that id whose name and arguments are
\* all the name and arguments fragments received for the index, in order,
\* and one ToolCallDelta was emitted per arguments fragment of that index,
\* also when the id came again in a later chunk or after the first fragments.
C32_FragmentsAssembled ==
  RanToEnd =>
    \A index \in Indexes :
      IdReceived(index) =>
        /\ \E k \in 1..Len(pendingToolCalls) :
             /\ pendingToolCalls[k].index = index
             /\ pendingToolCalls[k].id \in IdsReceived(index)
             /\ pendingToolCalls[k].name = NameFragments(index)
             /\ pendingToolCalls[k].arguments = ArgumentFragments(index)
        /\ Len(EventsAbout("ToolCallDelta", index)) = Len(ArgumentFragments(index))

\* The tool_calls of a final assistant message that holds the given calls.
ToolCallsFor(calls) ==
  IF calls = << >> THEN NoToolCalls ELSE [undefined |-> FALSE, calls |-> calls]

\* The stream ended without a failure and no chunk arrived while the token
\* was cancelled.
EndedNormally == failures = << >> /\ Processed = received

\* C38, as stated: the final assistant message is non-null only if the
\* stream was consumed to its end without cancellation and without error;
\* when it is non-null its tool_calls is pendingToolCalls, absent when that
\* list is empty; pendingToolCalls is non-empty only when the final message
\* is non-null.
C38_FinalMessageAndPendingCalls ==
  /\ finalAssistantMessage # NullMessage =>
       /\ EndedNormally
       /\ finalAssistantMessage.tool_calls = ToolCallsFor(pendingToolCalls)
  /\ pendingToolCalls # << >> => finalAssistantMessage # NullMessage

\* C38, amended: the final assistant message is non-null only once run() has
\* returned from a stream that ended without a failure and of which no chunk
\* arrived while the token was cancelled, and then its tool_calls is
\* pendingToolCalls, absent when that list is empty; pendingToolCalls is
\* non-empty only after such an end of the stream, it is then the list of the
\* buffered calls, and the final message is non-null as soon as the last
\* ToolCallEnd event has been taken and run() resumed.
C38_FinalMessageAfterLastEvent ==
  /\ finalAssistantMessage # NullMessage =>
       /\ EndedNormally
       /\ turnPc = "done"
       /\ finalAssistantMessage.tool_calls = ToolCallsFor(pendingToolCalls)
  /\ pendingToolCalls # << >> =>
       /\ EndedNormally
       /\ pendingToolCalls = CompletedToolCalls(toolCallBuffers)
       /\ \/ finalAssistantMessage # NullMessage
          \/ turnPc = "suspended" /\ turnAfter = "finish"
  /\ (turnPc = "done" /\ EndedNormally) => finalAssistantMessage # NullMessage

\* run() has returned with a final assistant message that holds a pending
\* tool call, after a stream with text.
C38_Witness ==
  /\ RanToEnd
  /\ pendingToolCalls # << >>
  /\ fullResponseText # << >>
  /\ emitted[Len(emitted)].type = "ToolCallEnd"

\* ========================================================================
\* sendMessageStream and tryCompressChat of the three clients of the
\* repository: XaiClient (packages/core/src/core/xaiclient.ts), GrokClient
\* (grokclient.ts) and GrokClient (client.ts); and main's runConversation
\* (packages/cli/src/xai.tsx lines 187-222), which drives an XaiClient.
\*
\* sendMessageStream is an async generator.  It is suspended while
\* tryCompressChat waits for the summary, at each yield, while turn.run()
\* waits for the stream, and while checkNextSpeaker waits for its answer.
\* Its self-recursion is a `yield*`: the frames below the innermost one only
\* wait for it and return when it returns, so the state holds the innermost
\* frame.  A Turn is seen here from outside: the events it yields, whether it
\* ends with a final assistant message, and how many tool calls it leaves
\* pending.  In client.ts the history is kept by GrokChat, which the
\* repository does not contain; of that client the model has the history
\* only where client.ts itself sets it.
\* ========================================================================

\* ------------------------------------------------------------------ bounds
\* Largest turn budget a caller passes explicitly.
MaxBudget == 2
\* Number of round-trips after which the next-speaker check stops answering
\* 'model'.
MaxRoundTrips == 3
\* Number of events one Turn yields before it ends or fails.
MaxTurnEvents == 1

\* ------------------------------------------------------------------ constants
MAX_TURNS == 100
XaiCompressionThreshold == 25
GrokCompressionThreshold == 20

\* ------------------------------------------------------------------ inputs
ClientFiles == {"xaiclient.ts", "grokclient.ts", "client.ts"}

\* XaiClient and the GrokClient of grokclient.ts keep this.history.
KeepsHistory(file) == file # "client.ts"

CompressionThreshold(file) ==
  IF file = "grokclient.ts" THEN GrokCompressionThreshold ELSE XaiCompressionThreshold

\* A message of the history: its role, what it is, and (ghost) the
\* round-trip it belongs to.
Msg(role, kind, turn) == [role |-> role, kind |-> kind, turn |-> turn]

CreateInitialHistory ==
  <<Msg("system", "system", 0), Msg("user", "context", 0), Msg("assistant", "ack", 0)>>

\* The messages of an earlier conversation with the same client.
Earlier(n) ==
  [i \in 1..n |-> Msg(IF i % 2 = 1 THEN "user" ELSE "assistant", "earlier", 0)]

\* The lengths of the earlier conversation: none, one message short of the
\* compression threshold, and at the threshold.
PriorLengths(file) ==
  IF KeepsHistory(file)
    THEN {0, CompressionThreshold(file) - 4, CompressionThreshold(file) - 3}
    ELSE {0}

\* The user message of a round-trip: the caller's prompt, then the
\* continuation prompt of the recursion.
UserMessage(n) == Msg("user", IF n = 1 THEN "prompt" ELSE "Please continue.", n)

FinalMessage(n) == Msg("assistant", "final", n)

\* ensureInitialized (xaiclient.ts lines 62-66), getChat (client.ts 117-124).
EnsureInitialized(h) == h # << >>

\* Whether tryCompressChat goes on to the summarization request.  client.ts
\* decides on an estimate of the tokens, which is an input here.
NeedsCompression(file, h) ==
  IF KeepsHistory(file)
    THEN {~(Len(h) = 0 \/ Len(h) < CompressionThreshold(file))}
    ELSE IF Len(h) <= 1 THEN {FALSE} ELSE BOOLEAN

\* The summary and its acknowledgement are put after the messages there are.
CompressedHistory_KeepsPrior(file, h) ==
  h \o <<Msg("user", "summary", 0), Msg("assistant", "summaryAck", 0)>>

\* The history after a successful compression.
CompressedHistory(file, h) ==
  IF KeepsHistory(file)
    THEN CreateInitialHistory
         \o <<Msg("user", "summary", 0), Msg("assistant", "summaryAck", 0)>>
    ELSE CreateInitialHistory
         \o SelectSeq(SubSeq(h, 1, 1), LAMBDA m : m.role = "system")
         \o <<Msg("user", "summarizationPrompt", 0), Msg("assistant", "summaryText", 0)>>

\* tryCompressChat from the answer to its request on: the history it leaves,
\* whether it returns a ChatCompressionInfo, whether it raises, and the
\* number of its reportError() calls.
CompressOutcomes == {"summary", "empty", "fails"}
TryCompressChat(file, h, outcome) ==
  IF outcome = "summary"
    THEN [history |-> CompressedHistory(file, h), info |-> TRUE, raises |-> FALSE,
          reports |-> 0]
  ELSE IF outcome = "empty"
    THEN [history |-> h, info |-> FALSE, raises |-> FALSE, reports |-> 0]
  ELSE IF KeepsHistory(file)
    THEN [history |-> h, info |-> FALSE, raises |-> FALSE, reports |-> 1]
    ELSE [history |-> h, info |-> FALSE, raises |-> TRUE, reports |-> 0]

\* The final assistant message is pushed twice.
PushFinal_Twice(h, message) == Append(Append(h, message), message)

\* xaiclient.ts lines 181-184.
PushFinal(h, message) == Append(h, message)

\* The recursion passes its own budget on.
ContinuationBudget_Same(t) == t

\* xaiclient.ts line 191: the budget the recursion is given.
ContinuationBudget(t) == t - 1

\* The answers of checkNextSpeaker: a speaker, null, or an exception.
SpeakerAnswers == {"model", "user", "null", "throws"}

\* The answers it can give under the state of the token it was handed.  It
\* names a speaker from the answer of generateJson, which is given the token
\* with its request and rejects once the token is cancelled (xaiclient.ts
\* lines 226 and 235); without that answer it gives null.
SpeakerAnswersUnder(isAborted) ==
  IF isAborted THEN SpeakerAnswers \ {"model", "user"} ELSE SpeakerAnswers

\* The next-speaker check is made whatever the token says.
ConsultsNextSpeaker_IgnoresToken(pendingCount, isAborted) == pendingCount = 0

\* xaiclient.ts line 187: whether the next-speaker check is made.
ConsultsNextSpeaker(pendingCount, isAborted) == pendingCount = 0 /\ ~isAborted

\* ------------------------------------------------------------------ steps
\* Lines 168-175: the user message is pushed and a Turn is started.
StartTurn(t, h) ==
  /\ history' = IF KeepsHistory(clientFile) THEN Append(h, UserMessage(turnNo + 1)) ELSE h
  /\ turnNo' = turnNo + 1
  /\ turns' = t
  /\ callPc' = "turn"
  /\ turnErrored' = FALSE
  /\ turnEvents' = 0

\* Lines 156-162: sendMessageStream with budget t, up to its first
\* suspension.
Enter(t) ==
  IF ~EnsureInitialized(history)
    THEN /\ callPc' = "raised"
         /\ UNCHANGED <<history, turnNo, turns, turnErrored, turnEvents>>
  ELSE IF t = 0
    THEN /\ callPc' = "returned"
         /\ UNCHANGED <<history, turnNo, turns, turnErrored, turnEvents>>
  ELSE \E needed \in NeedsCompression(clientFile, history) :
         IF needed
           THEN /\ callPc' = "compressing"
                /\ turns' = t
                /\ UNCHANGED <<history, turnNo, turnErrored, turnEvents>>
           ELSE StartTurn(t, history)

\* Lines 181-186: the Turn has ended; its final message, if it has one, is
\* pushed, and the next-speaker check is made if the Turn left no tool call
\* and the token is not cancelled.
EndTurn(hasFinal, pendingCount) ==
  \E pushed \in {IF hasFinal /\ KeepsHistory(clientFile)
                   THEN PushFinal(history, FinalMessage(turnNo))
                   ELSE history} :
    /\ history' = pushed
    /\ finalAppends' = finalAppends \o [i \in 1..(Len(pushed) - Len(history)) |-> turnNo]
    /\ turnLog' = Append(turnLog, [final |-> hasFinal, pending |-> pendingCount,
                                 errored |-> turnErrored])
    /\ callPc' = IF ConsultsNextSpeaker(pendingCount, signalAborted)
                   THEN "speaker" ELSE "returned"

\* ------------------------------------------------------------------ actions
\* new XaiClient(config), new GrokClient(config).
ClientConstruct ==
  /\ clientFile = "none"
  /\ mainPc = "start"
  /\ \E file \in ClientFiles : clientFile' = file
  /\ UNCHANGED <<history, callPc, turns, budget, signalAborted, turnNo, turnErrored,
                 turnEvents, streamEvents, finalAppends, clientReports, compressLog,
                 speakerLog, turnLog, historyAtCall, mainPc, exitCode, scheduled>>
  /\ UNCHANGED <<schedVars, turnVars, execVars, apiVars, loggerVars>>

\* initialize(), and an earlier conversation.
ClientInitialize ==
  /\ clientFile # "none"
  /\ mainPc = "start"
  /\ callPc = "none"
  /\ history = << >>
  /\ \E n \in PriorLengths(clientFile) : history' = CreateInitialHistory \o Earlier(n)
  /\ UNCHANGED <<clientFile, callPc, turns, budget, signalAborted, turnNo, turnErrored,
                 turnEvents, streamEvents, finalAppends, clientReports, compressLog,
                 speakerLog, turnLog, historyAtCall, mainPc, exitCode, scheduled>>
  /\ UNCHANGED <<schedVars, turnVars, execVars, apiVars, loggerVars>>

\* A caller starts sendMessageStream(prompt, signal, turns).
SendMessageStream ==
  /\ clientFile # "none"
  /\ mainPc = "start"
  /\ callPc = "none"
  /\ \E t \in 0..MaxBudget :
       /\ budget' = t
       /\ Enter(t)
  /\ historyAtCall' = history
  /\ UNCHANGED <<clientFile, signalAborted, streamEvents, finalAppends, clientReports,
                 compressLog, speakerLog, turnLog, mainPc, exitCode, scheduled>>
  /\ UNCHANGED <<schedVars, turnVars, execVars, apiVars, loggerVars>>

\* The summarization request of tryCompressChat is answered.
CompressSettles ==
  /\ callPc = "compressing"
  /\ \E outcome \in CompressOutcomes :
     \E result \in {TryCompressChat(clientFile, history, outcome)} :
       /\ compressLog' = Append(compressLog,
                                [outcome |-> outcome,
                                 unchanged |-> result.history = history,
                                 returnedNull |-> ~result.info,
                                 raised |-> result.raises])
       /\ clientReports' = clientReports + result.reports
       /\ IF result.raises
            THEN /\ callPc' = "raised"
                 /\ UNCHANGED <<history, turnNo, turns, turnErrored, turnEvents, streamEvents>>
          ELSE IF result.info
            THEN /\ history' = result.history
                 /\ streamEvents' = Append(streamEvents, "ChatCompressed")
                 /\ callPc' = "yieldCompressed"
                 /\ UNCHANGED <<turnNo, turns, turnErrored, turnEvents>>
            ELSE /\ StartTurn(turns, result.history)
                 /\ streamEvents' = streamEvents
  /\ UNCHANGED <<clientFile, budget, signalAborted, finalAppends, speakerLog, turnLog,
                 historyAtCall, mainPc, exitCode, scheduled>>
  /\ UNCHANGED <<schedVars, turnVars, execVars, apiVars, loggerVars>>

\* The consumer takes the ChatCompressed event and asks for the next one.
ResumeCompressed ==
  /\ callPc = "yieldCompressed"
  /\ StartTurn(turns, history)
  /\ UNCHANGED <<clientFile, budget, signalAborted, streamEvents, finalAppends,
                 clientReports, compressLog, speakerLog, turnLog, historyAtCall,
                 mainPc, exitCode, scheduled>>
  /\ UNCHANGED <<schedVars, turnVars, execVars, apiVars, loggerVars>>

\* The Turn yields an event, which sendMessageStream yields in its turn.
TurnYields ==
  /\ callPc = "turn"
  /\ turnEvents < MaxTurnEvents
  /\ turnEvents' = turnEvents + 1
  /\ streamEvents' = Append(streamEvents, "ContentDelta")
  /\ callPc' = "yieldTurn"
  /\ UNCHANGED <<clientFile, history, turns, budget, signalAborted, turnNo, turnErrored,
                 finalAppends, clientReports, compressLog, speakerLog, turnLog,
                 historyAtCall, mainPc, exitCode, scheduled>>
  /\ UNCHANGED <<schedVars, turnVars, execVars, apiVars, loggerVars>>

\* The stream of the Turn fails: the Turn yields its Error event, or ends
\* silently if the token is cancelled.
TurnFails ==
  /\ callPc = "turn"
  /\ IF signalAborted
       THEN /\ EndTurn(FALSE, 0)
            /\ UNCHANGED <<turnErrored, streamEvents>>
       ELSE /\ turnErrored' = TRUE
            /\ streamEvents' = Append(streamEvents, "Error")
            /\ callPc' = "yieldTurn"
            /\ UNCHANGED <<history, finalAppends, turnLog>>
  /\ UNCHANGED <<clientFile, turns, budget, signalAborted, turnNo, turnEvents,
                 clientReports, compressLog, speakerLog, historyAtCall, mainPc,
                 exitCode, scheduled>>
  /\ UNCHANGED <<schedVars, turnVars, execVars, apiVars, loggerVars>>

\* A chunk arrives after the token was cancelled: the Turn ends silently.
TurnCancelled ==
  /\ callPc = "turn"
  /\ signalAborted
  /\ EndTurn(FALSE, 0)
  /\ UNCHANGED <<clientFile, turns, budget, signalAborted, turnNo, turnErrored,
                 turnEvents, streamEvents, clientReports, compressLog, speakerLog,
                 historyAtCall, mainPc, exitCode, scheduled>>
  /\ UNCHANGED <<schedVars, turnVars, execVars, apiVars, loggerVars>>

\* The stream of the Turn runs to its end, leaving tool calls or none.
TurnCompletes ==
  /\ callPc = "turn"
  /\ \E pendingCount \in {0, 1} : EndTurn(TRUE, pendingCount)
  /\ UNCHANGED <<clientFile, turns, budget, signalAborted, turnNo, turnErrored,
                 turnEvents, streamEvents, clientReports, compressLog, speakerLog,
                 historyAtCall, mainPc, exitCode, scheduled>>
  /\ UNCHANGED <<schedVars, turnVars, execVars, apiVars, loggerVars>>

\* The consumer takes an event of the Turn and asks for the next one; a
\* Turn that has yielded its Error event returns.
ResumeTurn ==
  /\ callPc = "yieldTurn"
  /\ IF turnErrored
       THEN EndTurn(FALSE, 0)
       ELSE /\ callPc' = "turn"
            /\ UNCHANGED <<history, finalAppends, turnLog>>
  /\ UNCHANGED <<clientFile, turns, budget, signalAborted, turnNo, turnErrored,
                 turnEvents, streamEvents, clientReports, compressLog, speakerLog,
                 historyAtCall, mainPc, exitCode, scheduled>>
  /\ UNCHANGED <<schedVars, turnVars, execVars, apiVars, loggerVars>>

\* Lines 188-201: checkNextSpeaker answers.
SpeakerSettles ==
  /\ callPc = "speaker"
  /\ \E answer \in SpeakerAnswersUnder(signalAborted) :
       /\ answer = "model" => turnNo < MaxRoundTrips
       /\ speakerLog' = Append(speakerLog, answer)
       /\ IF answer = "model"
            THEN /\ Enter(ContinuationBudget(turns))
                 /\ UNCHANGED clientReports
          ELSE IF answer = "throws"
            THEN /\ IF clientFile # "xaiclient.ts"
                      THEN callPc' = "raised" /\ UNCHANGED clientReports
                    ELSE IF signalAborted
                      THEN callPc' = "returned" /\ UNCHANGED clientReports
                      ELSE callPc' = "reporting" /\ clientReports' = clientReports + 1
                 /\ UNCHANGED <<history, turnNo, turns, turnErrored, turnEvents>>
            ELSE /\ callPc' = "returned"
                 /\ UNCHANGED <<history, turnNo, turns, turnErrored, turnEvents, clientReports>>
  /\ UNCHANGED <<clientFile, budget, signalAborted, streamEvents, finalAppends,
                 compressLog, turnLog, historyAtCall, mainPc, exitCode, scheduled>>
  /\ UNCHANGED <<schedVars, turnVars, execVars, apiVars, loggerVars>>

\* xaiclient.ts lines 198-199: the error reporter is done, the Error event
\* is yielded.
ErrorReported ==
  /\ callPc = "reporting"
  /\ streamEvents' = Append(streamEvents, "Error")
  /\ callPc' = "yieldError"
  /\ UNCHANGED <<clientFile, history, turns, budget, signalAborted, turnNo, turnErrored,
                 turnEvents, finalAppends, clientReports, compressLog, speakerLog,
                 turnLog, historyAtCall, mainPc, exitCode, scheduled>>
  /\ UNCHANGED <<schedVars, turnVars, execVars, apiVars, loggerVars>>

\* The consumer takes the Error event; sendMessageStream returns.
ResumeError ==
  /\ callPc = "yieldError"
  /\ callPc' = "returned"
  /\ UNCHANGED <<clientFile, history, turns, budget, signalAborted, turnNo, turnErrored,
                 turnEvents, streamEvents, finalAppends, clientReports, compressLog,
                 speakerLog, turnLog, historyAtCall, mainPc, exitCode, scheduled>>
  /\ UNCHANGED <<schedVars, turnVars, execVars, apiVars, loggerVars>>

\* The caller cancels the token it passed.
ClientAbort ==
  /\ callPc \notin {"none", "returned", "raised"}
  /\ mainPc = "start"
  /\ ~signalAborted
  /\ signalAborted' = TRUE
  /\ UNCHANGED <<clientFile, history, callPc, turns, budget, turnNo, turnErrored,
                 turnEvents, streamEvents, finalAppends, clientReports, compressLog,
                 speakerLog, turnLog, historyAtCall, mainPc, exitCode, scheduled>>
  /\ UNCHANGED <<schedVars, turnVars, execVars, apiVars, loggerVars>>

ClientNext ==
  \/ ClientConstruct
  \/ ClientInitialize
  \/ SendMessageStream
  \/ CompressSettles
  \/ ResumeCompressed
  \/ TurnYields
  \/ TurnFails
  \/ TurnCancelled
  \/ TurnCompletes
  \/ ResumeTurn
  \/ SpeakerSettles
  \/ ErrorReported
  \/ ResumeError
  \/ ClientAbort

ClientSpec == Init /\ [][ClientNext]_vars

\* ------------------------------------------------------------------ main
\* The Turn sendMessageStream returns: the Turn of its outermost frame, or a
\* fresh one if the budget was 0.
ReturnedTurn ==
  IF turnLog = << >>
    THEN [defined |-> TRUE, pending |-> 0]
    ELSE [defined |-> TRUE, pending |-> turnLog[1].pending]

\* xai.tsx lines 200-208: the value of `(await stream.next()).value` after the
\* `for await` loop has run the generator to its end.  The loop takes the
\* result that carries the return value; a generator that has ended answers
\* every later next() with {value: undefined, done: true}.
NextAfterForAwait(returned) == [defined |-> FALSE, pending |-> 0]

\* xai.tsx lines 170-171: new XaiClient(config) and initialize().
MainSetup ==
  /\ mainPc = "start"
  /\ clientFile = "none"
  /\ clientFile' = "xaiclient.ts"
  /\ history' = CreateInitialHistory
  /\ mainPc' = "ready"
  /\ UNCHANGED <<callPc, turns, budget, signalAborted, turnNo, turnErrored,
                 turnEvents, streamEvents, finalAppends, clientReports, compressLog,
                 speakerLog, turnLog, historyAtCall, exitCode, scheduled>>
  /\ UNCHANGED <<schedVars, turnVars, execVars, apiVars, loggerVars>>

\* xai.tsx lines 187-197: runConversation(input) starts sendMessageStream
\* with a token of its own and the default budget.
RunConversation ==
  /\ mainPc = "ready"
  /\ budget' = MAX_TURNS
  /\ Enter(MAX_TURNS)
  /\ historyAtCall' = history
  /\ mainPc' = "streaming"
  /\ UNCHANGED <<clientFile, signalAborted, streamEvents, finalAppends, clientReports,
                 compressLog, speakerLog, turnLog, exitCode, scheduled>>
  /\ UNCHANGED <<schedVars, turnVars, execVars, apiVars, loggerVars>>

\* xai.tsx lines 204-221: the loop over the stream is over.
MainAfterStream ==
  /\ mainPc = "streaming"
  /\ callPc \in {"returned", "raised"}
  /\ \E finalTurn \in {NextAfterForAwait(ReturnedTurn)} :
       IF callPc = "raised"
         THEN /\ mainPc' = "exited"
              /\ exitCode' = 1
              /\ scheduled' = scheduled
       ELSE IF finalTurn.defined /\ finalTurn.pending > 0
         THEN /\ mainPc' = "scheduling"
              /\ exitCode' = exitCode
              /\ scheduled' = Append(scheduled, finalTurn.pending)
         ELSE /\ mainPc' = "exited"
              /\ exitCode' = 0
              /\ scheduled' = scheduled
  /\ UNCHANGED <<clientFile, history, callPc, turns, budget, signalAborted, turnNo,
                 turnErrored, turnEvents, streamEvents, finalAppends, clientReports,
                 compressLog, speakerLog, turnLog, historyAtCall>>
  /\ UNCHANGED <<schedVars, turnVars, execVars, apiVars, loggerVars>>

MainNext ==
  \/ MainSetup
  \/ RunConversation
  \/ TurnYields
  \/ TurnFails
  \/ TurnCompletes
  \/ ResumeTurn
  \/ SpeakerSettles
  \/ ErrorReported
  \/ ResumeError
  \/ MainAfterStream

MainSpec == Init /\ [][MainNext]_vars

\* ------------------------------------------------------------------ views
\* The number of times the final message of round-trip n was pushed.
AppendsOf(n) == Cardinality({i \in 1..Len(finalAppends) : finalAppends[i] = n})

\* A call of sendMessageStream was made on an initialized client.
CalledInitialized == callPc # "none" /\ EnsureInitialized(historyAtCall)

\* ------------------------------------------------------------------ claims
\* C16: in the clients that keep this.history, the final assistant message
\* of a Turn is pushed once if the Turn's stream ran to its end and never
\* otherwise, no Turn's message is pushed twice, and a final message in the
\* history stands directly after the user message of its round-trip.
C16_OneAppendPerTurn ==
  KeepsHistory(clientFile) =>
    /\ \A n \in 1..Len(turnLog) : AppendsOf(n) = IF turnLog[n].final THEN 1 ELSE 0
    /\ \A n \in 1..turnNo : AppendsOf(n) <= 1
    /\ \A p \in 1..Len(history) :
         history[p].kind = "final" =>
           /\ p > 1
           /\ history[p - 1] = UserMessage(history[p].turn)

\* An XaiClient has made two round-trips whose streams ran to their end.
C16_Witness ==
  /\ clientFile = "xaiclient.ts"
  /\ callPc = "returned"
  /\ Len(turnLog) = 2
  /\ turnLog[1].final
  /\ turnLog[2].final
  /\ Len(finalAppends) = 2

C18_FailedCompressionIsSilent ==
  \A k \in 1..Len(compressLog) :
    compressLog[k].outcome \in {"empty", "fails"} =>
      /\ compressLog[k].unchanged
      /\ compressLog[k].returnedNull
      /\ ~compressLog[k].raised
      /\ (k = Len(compressLog) => callPc # "raised")

\* C19: when main is through with a stream, the tool calls of the returned
\* Turn have been handed to the scheduler, and the process has exited with
\* code 0 only if the returned Turn has no pending tool call.
C19_PendingCallsAreScheduled ==
  mainPc \in {"scheduling", "exited"} =>
    /\ ReturnedTurn.pending > 0 => scheduled = <<ReturnedTurn.pending>>
    /\ (mainPc = "exited" /\ exitCode = 0) => ReturnedTurn.pending = 0

\* C23: after a Turn that ended with an Error event, no assistant message is
\* pushed for its round-trip, checkNextSpeaker is not asked, and no further
\* round-trip is made.
C23_ErroredTurnEndsCall ==
  \A n \in 1..Len(turnLog) :
    turnLog[n].errored =>
      /\ AppendsOf(n) = 0
      /\ callPc # "speaker"
      /\ Len(speakerLog) < n
      /\ turnNo = n

\* checkNextSpeaker answers in this step.
SpeakerAnswered == Len(speakerLog') > Len(speakerLog)

\* A Turn ends in this step.
TurnEnded == Len(turnLog') > Len(turnLog)

\* sendMessageStream is in a round-trip: compressing, in its Turn, or
\* waiting for the next-speaker check.
InRoundTrip == callPc \in {"compressing", "yieldCompressed", "turn", "yieldTurn", "speaker"}

\* What a step of sendMessageStream may do about the next-speaker check and
\* the recursion.
ContinuationStep ==
  /\ (callPc' = "speaker" /\ callPc # "speaker") =>
       /\ TurnEnded
       /\ turnLog'[Len(turnLog')].pending = 0
       /\ ~signalAborted
  /\ (TurnEnded /\ (turnLog'[Len(turnLog')].pending > 0 \/ signalAborted)) =>
       /\ callPc' = "returned"
       /\ speakerLog' = speakerLog
  /\ (turnNo >= 1 /\ (turnNo' > turnNo \/ (callPc' = "compressing" /\ callPc # "compressing"))) =>
       /\ callPc \in {"speaker", "compressing", "yieldCompressed"}
       /\ speakerLog'[Len(turnLog')] = "model"
       /\ turnLog'[Len(turnLog')].pending = 0
  /\ (SpeakerAnswered /\ speakerLog'[Len(speakerLog')] # "model") =>
       /\ turnNo' = turnNo
       /\ callPc' \in {"returned", "raised", "reporting"}
  /\ (signalAborted /\ callPc \in {"turn", "yieldTurn", "speaker"}) =>
       /\ turnNo' = turnNo
       /\ callPc' \notin {"compressing", "yieldCompressed"}
  /\ (callPc \in {"returned", "raised"}) => (turnNo' = turnNo /\ ~InRoundTrip')

JustCompressed == KeepsHistory(clientFile) /\ callPc = "yieldCompressed"

\* The kinds of the messages of earlier conversations and round-trips.
PriorKinds == {"earlier", "prompt", "Please continue.", "final"}

\* C34, as stated: after a successful compaction the history is exactly the
\* system prompt, one user message with the summary and an assistant
\* acknowledgement, and holds no message of the prior turns.
C34_ThreeMessagesAfterCompaction ==
  JustCompressed =>
    /\ Len(history) = 3
    /\ history[1].role = "system"
    /\ history[2] = Msg("user", "summary", 0)
    /\ history[3].role = "assistant"
    /\ \A p \in 1..Len(history) : history[p].kind \notin PriorKinds

\* C34, amended: after a successful compaction the history is exactly the
\* initial history (system prompt, the user message about the environment
\* context, its acknowledgement) followed by one user message with the
\* summary and an assistant acknowledgement, and holds no message of the
\* prior turns.
C34_InitialHistoryThenSummary ==
  JustCompressed =>
    /\ Len(history) = 5
    /\ [p \in 1..5 |-> history[p].role] =
         <<"system", "user", "assistant", "user", "assistant">>
    /\ SubSeq(history, 1, 3) = CreateInitialHistory
    /\ history[4].kind = "summary"
    /\ history[5].kind = "summaryAck"
    /\ Cardinality({p \in 1..Len(history) : history[p].kind = "summary"}) = 1
    /\ \A p \in 1..Len(history) : history[p].kind \notin PriorKinds

\* The recursion of a call has compacted a history that held the prompt and
\* the final message of the call's first round-trip.
C34_Witness ==
  /\ JustCompressed
  /\ turnNo = 1
  /\ turnLog[1].final
  /\ compressLog[Len(compressLog)].outcome = "summary"

\* ========================================================================
\* executeSingleToolCall, packages/core/src/core/grokclient.ts lines 365-461.
\*
\* An async function with one suspension point, `await tool.execute(...)`
\* (line 414).  Its caller awaits each call before it makes the next.
\* ========================================================================

\* ------------------------------------------------------------------ bounds
\* Number of calls of executeSingleToolCall during one run.
MaxExecCalls == 2

\* ------------------------------------------------------------------ inputs
\* How tool.execute() ends: with text content, with structured content, or
\* with an exception (thrown or as a rejection).
ToolOutcomes == {"text", "structured", "rejects"}

\* JSON.stringify of structured content.
JsonStringify(value) == <<"json", value>>

\* toolResult.llmContent, and the content of the message it gives (lines
\* 430-432).
ResultContent(outcome) ==
  IF outcome = "text" THEN <<"hi">> ELSE JsonStringify({<<"text", "hi">>})

\* Lines 386-390, 403-407, 434-438, 452-456.
ToolMessage(toolCallId, content) ==
  [role |-> "tool", tool_call_id |-> toolCallId, content |-> content]

\* The tool is executed whenever the arguments parse, registered or not.
SingleToolCallStart_ExecutesUnknown(toolCall) ==
  LET tool == GetTool(toolCall.name)
      parsed == JsonParse(toolCall.arguments)
  IN IF ~parsed.ok
       THEN [done |-> TRUE, invoked |-> 0, logged |-> <<FALSE>>,
             message |-> ToolMessage(toolCall.id,
                           <<"Error: ", "Failed to parse tool arguments as JSON for tool \"",
                             toolCall.name, "\". Invalid JSON: ", toolCall.arguments>>)]
       ELSE [done |-> FALSE, invoked |-> 1, logged |-> << >>,
             message |-> ToolMessage(toolCall.id, << >>)]

\* Lines 371-411: executeSingleToolCall up to its await.  `logged` is the
\* `success` field of each logToolCall() event.
SingleToolCallStart(toolCall) ==
  LET tool == GetTool(toolCall.name)
      parsed == JsonParse(toolCall.arguments)
  IN IF ~parsed.ok
       THEN [done |-> TRUE, invoked |-> 0, logged |-> <<FALSE>>,
             message |-> ToolMessage(toolCall.id,
                           <<"Error: ", "Failed to parse tool arguments as JSON for tool \"",
                             toolCall.name, "\". Invalid JSON: ", toolCall.arguments>>)]
     ELSE IF tool = "none"
       THEN [done |-> TRUE, invoked |-> 0, logged |-> <<FALSE>>,
             message |-> ToolMessage(toolCall.id,
                           <<"Error: ", "Tool \"", toolCall.name,
                             "\" not found in registry.">>)]
       ELSE [done |-> FALSE, invoked |-> 1, logged |-> << >>,
             message |-> ToolMessage(toolCall.id, << >>)]

\* Lines 419-457: executeSingleToolCall after its await.
SingleToolCallEnd(toolCall, outcome) ==
  IF outcome = "rejects"
    THEN [logged |-> <<FALSE>>,
          message |-> ToolMessage(toolCall.id, <<"Error executing tool: ", "boom">>)]
    ELSE [logged |-> <<TRUE>>,
          message |-> ToolMessage(toolCall.id, ResultContent(outcome))]

\* ------------------------------------------------------------------ actions
\* executeSingleToolCall(config, toolCall, toolRegistry, abortSignal) is
\* called.
ExecuteSingleToolCall ==
  /\ execPc = "idle"
  /\ Len(execDone) < MaxExecCalls
  /\ \E toolCall \in ApiToolCalls :
     \E start \in {SingleToolCallStart(toolCall)} :
       IF start.done
         THEN /\ execDone' = Append(execDone,
                                    [toolCall |-> toolCall, message |-> start.message,
                                     logged |-> start.logged, invoked |-> start.invoked])
              /\ UNCHANGED <<execPc, execCall, execInvoked>>
         ELSE /\ execPc' = "awaiting"
              /\ execCall' = toolCall
              /\ execInvoked' = start.invoked
              /\ UNCHANGED execDone
  /\ UNCHANGED <<schedVars, turnVars, clientVars, apiVars, loggerVars>>

\* tool.execute() ends.
ToolSettles ==
  /\ execPc = "awaiting"
  /\ \E outcome \in ToolOutcomes :
     \E end \in {SingleToolCallEnd(execCall, outcome)} :
       execDone' = Append(execDone,
                          [toolCall |-> execCall, message |-> end.message,
                           logged |-> end.logged, invoked |-> execInvoked])
  /\ execPc' = "idle"
  /\ execCall' = NoToolCall
  /\ execInvoked' = 0
  /\ UNCHANGED <<schedVars, turnVars, clientVars, apiVars, loggerVars>>

ExecNext == ExecuteSingleToolCall \/ ToolSettles

ExecSpec == Init /\ [][ExecNext]_vars

\* ------------------------------------------------------------------ claims
\* C20: every call of executeSingleToolCall that has ended has given one
\* tool message with the id of its tool call and logged one tool-call event;
\* it has invoked execute() at most once, and a call that invoked execute(),
\* ended or not, had arguments that parse and a registered tool.
C20_OneMessageOneLog ==
  /\ \A k \in 1..Len(execDone) :
       /\ execDone[k].message.role = "tool"
       /\ execDone[k].message.tool_call_id = execDone[k].toolCall.id
       /\ Len(execDone[k].logged) = 1
       /\ execDone[k].invoked <= 1
       /\ execDone[k].invoked = 1 =>
            /\ JsonParse(execDone[k].toolCall.arguments).ok
            /\ GetTool(execDone[k].toolCall.name) # "none"
  /\ execPc = "awaiting" =>
       /\ execInvoked = 1
       /\ JsonParse(execCall.arguments).ok
       /\ GetTool(execCall.name) # "none"

\* One call ran its tool, which threw, and one call named a tool that is
\* not registered.
C20_Witness ==
  /\ Len(execDone) = 2
  /\ execDone[1].invoked = 1
  /\ execDone[1].logged = <<FALSE>>
  /\ execDone[2].invoked = 0
  /\ JsonParse(execDone[2].toolCall.arguments).ok

\* ========================================================================
\* GrokApiClient, packages/core/src/core/grokClient.ts lines 24-194, and the
\* mapper it sends its requests through, mapPartsToOpenAIChatMessages.
\*
\* generateContent and generateContentStream are async functions with one
\* suspension point each, `await this.openai.chat.completions.create(...)`
\* (lines 67-68 and 141-142): the messages are mapped and handed to create()
\* before it, this.lastToolCallIds is reset after it.  The generator that
\* generateContentStream returns reads a chunk of the stream each time its
\* consumer asks for one.  A caller makes a request when no create() is
\* outstanding; a stream it has not read to its end is left where it is.
\* ========================================================================

\* ------------------------------------------------------------------ bounds
\* Number of requests (create() calls) made during one run.
MaxApiCalls == 3
\* Number of tool calls in one response of the model.
MaxResponseCalls == 2

\* ------------------------------------------------------------------ inputs
\* The functions the model may call.
FunctionNames == {"get_weather", "get_temperature"}

\* undefined, as the value of an id or of the result of find(); an absent
\* function name.
NoId == << >>
NoName == ""

\* Ids are opaque tokens chosen by the remote model: the id of its n-th tool
\* call.
IdOf(n) == <<"tool_call_id_", n>>

\* functionResponse.response.
Sunny == {<<"weather", "sunny">>}

\* The functionResponse part that answers a tool call of the model.  It
\* carries the function's name and the result; `answers` and `response` are
\* ghost fields: the id of the tool call answered and the request whose
\* response made it.
FunctionResponse(call) ==
  [name |-> call.name, result |-> Sunny, answers |-> call.id, response |-> call.response]

\* A Content: its role, the texts of its text parts, its functionResponse
\* parts.
Content(role, texts, functionResponses) ==
  [role |-> role, texts |-> texts, functionResponses |-> functionResponses]

\* request.contents: a user text, or the conversation from some tool call of
\* the model on, with the answers to that call and to every later one, under
\* the role 'tool' or 'user'.
RequestContents(calls) ==
  {<<Content("user", <<"Hello Grok">>, << >>)>>}
  \cup {<<Content("user", <<"Hello Grok">>, << >>),
          Content("model", <<"Let me ", "check.">>, << >>),
          Content(role, << >>,
                  [i \in 1..(Len(calls) - from + 1) |->
                     FunctionResponse(calls[from + i - 1])])>> :
          from \in 1..Len(calls), role \in {"tool", "user"}}

\* ------------------------------------------------------------------ the mapper
\* lastToolCallIds?.find((tc) => tc.name === name)?.id
FindToolCallId(ids, name) ==
  LET hits == {i \in 1..Len(ids) : ids[i].name = name}
  IN IF hits = {} THEN NoId
     ELSE ids[CHOOSE i \in hits : \A j \in hits : i <= j].id

\* `MISSING_ID_FOR_${name}`
MissingId(name) == <<"MISSING_ID_FOR_", name>>

\* part_003 lines 19-35: the message of a functionResponse part.
ToolResponseMessage(part, ids) ==
  LET toolCallId == FindToolCallId(ids, part.name)
  IN [role |-> "tool",
      tool_call_id |-> IF toolCallId # NoId THEN toolCallId ELSE MissingId(part.name),
      name |-> part.name,
      content |-> JsonStringify(part.result),
      answers |-> part.answers,
      response |-> part.response]

\* part_003 lines 39-45: the message of a Content without functionResponse.
TextMessage(content) ==
  [role |-> IF content.role = "model" THEN "assistant" ELSE content.role,
   tool_call_id |-> NoId,
   name |-> NoName,
   content |-> content.texts,
   answers |-> NoId,
   response |-> 0]

RECURSIVE MapPartsToOpenAIChatMessages(_, _)
MapPartsToOpenAIChatMessages(contents, ids) ==
  IF contents = << >> THEN << >>
  ELSE LET content == Head(contents)
           mapped ==
             IF content.role = "tool" \/ content.functionResponses # << >>
               THEN [i \in 1..Len(content.functionResponses) |->
                       ToolResponseMessage(content.functionResponses[i], ids)]
               ELSE <<TextMessage(content)>>
       IN mapped \o MapPartsToOpenAIChatMessages(Tail(contents), ids)

\* ------------------------------------------------------------------ the client
\* grokClient.ts lines 70-82: the ids of a completion's tool calls.
CollectToolCallIds(functionCalls) ==
  [k \in 1..Len(functionCalls) |-> [name |-> functionCalls[k].name, id |-> functionCalls[k].id]]

\* grokClient.ts lines 156-168: an element of delta.tool_calls.
AccumulateToolCallIds(ids, toolCall) ==
  IF /\ toolCall.id # NoId
     /\ toolCall.name # NoName
     /\ ~\E i \in 1..Len(ids) : ids[i].id = toolCall.id
    THEN Append(ids, [name |-> toolCall.name, id |-> toolCall.id])
    ELSE ids

\* The tool calls of the response to request n.
CallsOfResponse(n) == SelectSeq(apiCalls, LAMBDA c : c.response = n)

\* The elements of delta.tool_calls a chunk may carry: the start of a new
\* tool call, with its id and its function's name, or with its id alone (the
\* name follows in a chunk without id); or the latest tool call once more.
\* `called` is a ghost field, the function the tool call names.
StreamDeltas ==
  (IF Len(CallsOfResponse(apiRequests)) < MaxResponseCalls
     THEN {[id |-> IdOf(Len(apiCalls) + 1), name |-> IF joined THEN called ELSE NoName,
            called |-> called, new |-> TRUE] :
             called \in FunctionNames, joined \in BOOLEAN}
     ELSE {})
  \cup {[id |-> c.id, name |-> c.name, called |-> c.name, new |-> FALSE] :
          c \in {apiCalls[k] : k \in {Len(apiCalls)} \cap
                                      {j \in 1..Len(apiCalls) : apiCalls[j].response = apiRequests}}}

\* Lines 40-43 and 114-117, then the messages are handed to create().
Send(contents) ==
  /\ apiSent' = [preceding |-> apiResponseNo,
                 messages |-> MapPartsToOpenAIChatMessages(contents, lastToolCallIds)]
  /\ apiRequests' = apiRequests + 1

\* ------------------------------------------------------------------ actions
\* generateContent(request) up to its await.
GenerateContent ==
  /\ apiPc \in {"idle", "streaming"}
  /\ apiRequests < MaxApiCalls
  /\ \E contents \in RequestContents(apiCalls) : Send(contents)
  /\ apiPc' = "generating"
  /\ UNCHANGED <<lastToolCallIds, apiCalls, apiResponseNo>>
  /\ UNCHANGED <<schedVars, turnVars, clientVars, execVars, loggerVars>>

\* generateContent from its await on: the completion has arrived, with the
\* tool calls of the model.
CompletionArrives ==
  /\ apiPc = "generating"
  /\ \E names \in SeqsUpTo(FunctionNames, MaxResponseCalls) :
     \E functionCalls \in {[k \in 1..Len(names) |->
                          [name |-> names[k], id |-> IdOf(Len(apiCalls) + k),
                           response |-> apiRequests]]} :
       /\ lastToolCallIds' = CollectToolCallIds(functionCalls)
       /\ apiCalls' = apiCalls \o functionCalls
  /\ apiResponseNo' = apiRequests
  /\ apiPc' = "idle"
  /\ UNCHANGED <<apiRequests, apiSent>>
  /\ UNCHANGED <<schedVars, turnVars, clientVars, execVars, loggerVars>>

\* create() rejects: the function raises, nothing is reset.
CreateFails ==
  /\ apiPc \in {"generating", "opening"}
  /\ apiPc' = "idle"
  /\ UNCHANGED <<lastToolCallIds, apiRequests, apiCalls, apiResponseNo, apiSent>>
  /\ UNCHANGED <<schedVars, turnVars, clientVars, execVars, loggerVars>>

\* generateContentStream(request) up to its await.
GenerateContentStream ==
  /\ apiPc \in {"idle", "streaming"}
  /\ apiRequests < MaxApiCalls
  /\ \E contents \in RequestContents(apiCalls) : Send(contents)
  /\ apiPc' = "opening"
  /\ UNCHANGED <<lastToolCallIds, apiCalls, apiResponseNo>>
  /\ UNCHANGED <<schedVars, turnVars, clientVars, execVars, loggerVars>>

\* generateContentStream from its await on (lines 144-193): the stream is
\* open and the generator is returned.
StreamOpens ==
  /\ apiPc = "opening"
  /\ lastToolCallIds' = << >>
  /\ apiResponseNo' = apiRequests
  /\ apiPc' = "streaming"
  /\ UNCHANGED <<apiRequests, apiCalls, apiSent>>
  /\ UNCHANGED <<schedVars, turnVars, clientVars, execVars, loggerVars>>

\* The consumer asks for the next response and a chunk with a tool-call
\* element arrives (lines 151-190).
ReadStreamChunk ==
  /\ apiPc = "streaming"
  /\ \E toolCall \in StreamDeltas :
       /\ lastToolCallIds' = AccumulateToolCallIds(lastToolCallIds, toolCall)
       /\ apiCalls' = IF toolCall.new
                        THEN Append(apiCalls, [name |-> toolCall.called, id |-> toolCall.id,
                                               response |-> apiRequests])
                        ELSE apiCalls
  /\ UNCHANGED <<apiPc, apiRequests, apiResponseNo, apiSent>>
  /\ UNCHANGED <<schedVars, turnVars, clientVars, execVars, loggerVars>>

\* The stream is read to its end.
ApiStreamEnds ==
  /\ apiPc = "streaming"
  /\ apiPc' = "idle"
  /\ UNCHANGED <<lastToolCallIds, apiRequests, apiCalls, apiResponseNo, apiSent>>
  /\ UNCHANGED <<schedVars, turnVars, clientVars, execVars, loggerVars>>

ApiNext ==
  \/ GenerateContent
  \/ CompletionArrives
  \/ CreateFails
  \/ GenerateContentStream
  \/ StreamOpens
  \/ ReadStreamChunk
  \/ ApiStreamEnds

ApiSpec == Init /\ [][ApiNext]_vars

\* ------------------------------------------------------------------ views
\* The ids the model has assigned so far.
ModelIds == {apiCalls[k].id : k \in 1..Len(apiCalls)}

\* The tool messages of the latest request.
SentToolMessages ==
  {apiSent.messages[k] : k \in {j \in 1..Len(apiSent.messages) :
                                  apiSent.messages[j].role = "tool"}}

\* Those that answer a tool call of the response which preceded the request.
AnswersToPreceding == {m \in SentToolMessages : m.response = apiSent.preceding}

\* ------------------------------------------------------------------ claims
\* C21: the tool_call_id of every tool message handed to create() is an id
\* that the model assigned to one of its tool calls.
C21_IdsComeFromTheModel ==
  \A m \in SentToolMessages : m.tool_call_id \in ModelIds

\* C24: a tool message that answers a tool call of the preceding response
\* carries the id the model gave that tool call, and the messages answering
\* two tool calls of that response carry two ids.
C24_AnswersCarryTheirCallsId ==
  /\ \A m \in AnswersToPreceding : m.tool_call_id = m.answers
  /\ \A m1, m2 \in AnswersToPreceding :
       m1.answers # m2.answers => m1.tool_call_id # m2.tool_call_id

\* ========================================================================
\* Logger, packages/core/src/core/logger.ts lines 27-223.
\*
\* logMessage() is an async function.  It is suspended in _updateLogFile at
\* `await this._readLogFile()` (line 141) and at `await fs.writeFile(...)`
\* (line 176); the code between runs uninterrupted.  Nothing makes a call
\* wait for the one before it, so several calls can be suspended at once.
\* A read gives the file as it is when the read settles, a write replaces
\* the file when it settles.
\* ========================================================================

\* ------------------------------------------------------------------ bounds
\* Number of logMessage() calls of one session.
MaxLogCalls == 3

\* ------------------------------------------------------------------ inputs
\* this.sessionId, and the session of an earlier run.
SessionId == "this"
EarlierSession == "earlier"

\* An entry of the file.  `message` numbers the message and its
\* timestamp (0: of an earlier run); wellFormed stands for the typeof tests
\* of lines 54-59.
LogEntry(session, id, message, wellFormed) ==
  [sessionId |-> session, messageId |-> id, message |-> message,
   wellFormed |-> wellFormed]

\* The file as initialize() finds it: absent, or left by an earlier run and
\* by an earlier use of this session.
PriorFiles ==
  {<< >>,
   <<LogEntry(EarlierSession, 0, 0, TRUE), LogEntry(SessionId, 0, 0, TRUE),
     LogEntry(SessionId, 1, 0, FALSE)>>}

\* Lines 40-60: the entries of the file that pass the filter.
ReadLogFile(file) == SelectSeq(file, LAMBDA e : e.wellFormed)

Max(S) == CHOOSE x \in S : \A y \in S : y <= x

\* Lines 116-122 and 150-156.
NextMessageId(entries, session) ==
  LET sessionLogs == SelectSeq(entries, LAMBDA e : e.sessionId = session)
  IN IF Len(sessionLogs) > 0
       THEN Max({sessionLogs[i].messageId : i \in 1..Len(sessionLogs)}) + 1
       ELSE 0

\* Lines 150-174: _updateLogFile between its two awaits.
UpdateLogFileAfterRead(entryToAppend, currentLogsOnDisk) ==
  LET numbered == [entryToAppend EXCEPT
                     !.messageId = NextMessageId(currentLogsOnDisk, entryToAppend.sessionId)]
      entryExists == \E i \in 1..Len(currentLogsOnDisk) : currentLogsOnDisk[i] = numbered
  IN [entryExists |-> entryExists,
      entry |-> numbered,
      currentLogsOnDisk |-> IF entryExists THEN currentLogsOnDisk
                            ELSE Append(currentLogsOnDisk, numbered)]

\* ------------------------------------------------------------------ actions
\* initialize(), lines 93-128: the file is read, or made if it is absent, and
\* this.messageId is set from the session's entries.
LoggerInitialize ==
  /\ ~initialized
  /\ \E found \in PriorFiles :
       /\ logFile' = found
       /\ logs' = ReadLogFile(found)
       /\ messageId' = NextMessageId(ReadLogFile(found), SessionId)
  /\ initialized' = TRUE
  /\ UNCHANGED <<logCalls, logReturned>>
  /\ UNCHANGED <<schedVars, turnVars, clientVars, execVars, apiVars>>

\* logMessage(type, message), lines 199-214, up to the read of the file.  On
\* a logger that is not initialized it returns at once (lines 200-205).
LogMessage ==
  /\ initialized
  /\ Len(logCalls) < MaxLogCalls
  /\ logCalls' = Append(logCalls,
                        [pc |-> "reading",
                         entry |-> LogEntry(SessionId, messageId, Len(logCalls) + 1, TRUE),
                         currentLogsOnDisk |-> << >>])
  /\ UNCHANGED <<initialized, messageId, logs, logFile, logReturned>>
  /\ UNCHANGED <<schedVars, turnVars, clientVars, execVars, apiVars>>

\* Lines 141-176: the read of a call settles, the entry is numbered and
\* pushed, and the write is started.
LogReadSettles ==
  \E k \in 1..Len(logCalls) :
    /\ logCalls[k].pc = "reading"
    /\ \E step \in {UpdateLogFileAfterRead(logCalls[k].entry, ReadLogFile(logFile))} :
         /\ logCalls' = [logCalls EXCEPT ![k] =
                           [pc |-> IF step.entryExists THEN "done" ELSE "writing",
                            entry |-> step.entry,
                            currentLogsOnDisk |-> step.currentLogsOnDisk]]
         /\ logs' = IF step.entryExists THEN step.currentLogsOnDisk ELSE logs
    /\ UNCHANGED <<initialized, messageId, logFile, logReturned>>
    /\ UNCHANGED <<schedVars, turnVars, clientVars, execVars, apiVars>>

\* Lines 142-148 and 219-221: the read fails; logMessage ends.
LogReadFails ==
  \E k \in 1..Len(logCalls) :
    /\ logCalls[k].pc = "reading"
    /\ logCalls' = [logCalls EXCEPT ![k].pc = "failed"]
    /\ UNCHANGED <<initialized, messageId, logs, logFile, logReturned>>
    /\ UNCHANGED <<schedVars, turnVars, clientVars, execVars, apiVars>>

\* Lines 176-183 and 215-218: the write of a call settles; the file is what
\* the call read with its entry added.
LogWriteSettles ==
  \E k \in 1..Len(logCalls) :
    /\ logCalls[k].pc = "writing"
    /\ logFile' = logCalls[k].currentLogsOnDisk
    /\ logs' = logCalls[k].currentLogsOnDisk
    /\ messageId' = logCalls[k].entry.messageId + 1
    /\ logReturned' = Append(logReturned, logCalls[k].entry)
    /\ logCalls' = [logCalls EXCEPT ![k].pc = "done"]
    /\ UNCHANGED initialized
    /\ UNCHANGED <<schedVars, turnVars, clientVars, execVars, apiVars>>

\* Lines 184-187 and 219-221: the write fails; logMessage ends.
LogWriteFails ==
  \E k \in 1..Len(logCalls) :
    /\ logCalls[k].pc = "writing"
    /\ logCalls' = [logCalls EXCEPT ![k].pc = "failed"]
    /\ UNCHANGED <<initialized, messageId, logs, logFile, logReturned>>
    /\ UNCHANGED <<schedVars, turnVars, clientVars, execVars, apiVars>>

LoggerNext ==
  \/ LoggerInitialize
  \/ LogMessage
  \/ LogReadSettles
  \/ LogReadFails
  \/ LogWriteSettles
  \/ LogWriteFails

LoggerSpec == Init /\ [][LoggerNext]_vars

\* ------------------------------------------------------------------ claims
\* C40: with several logMessage() calls of one session in flight, no two
\* entries of the session in the file have the same messageId, and every
\* entry whose logMessage() call completed with its entry written is in the
\* file.
C40_NoEntryLostOrDoubled ==
  /\ \A p, q \in 1..Len(logFile) :
       (p # q /\ logFile[p].sessionId = SessionId /\ logFile[q].sessionId = SessionId)
         => logFile[p].messageId # logFile[q].messageId
  /\ \A n \in 1..Len(logReturned) :
       \E p \in 1..Len(logFile) : logFile[p] = logReturned[n]
====
